---- MODULE Spec2Model ----
(***************************************************************************)
(* Assessment and grading workflow of the university LMS backend.          *)
(*                                                                         *)
(* The state is the relational store (one variable per table the workflow  *)
(* touches), the clock, and the request workers with the call each one is  *)
(* executing.  A service method is translated statement by statement:      *)
(* the declarative constructor of a mapped class, the class-attribute      *)
(* lookup in a filter, Session.add / commit / refresh and the pydantic     *)
(* from_orm that builds the return value.  A call that reaches db.commit() *)
(* is split at the commit, so that two requests can interleave between     *)
(* the query and the write.                                                *)
(*                                                                         *)
(* The store outlives the process: Init ranges over database contents that *)
(* the table definitions admit and that already satisfy the workflow's     *)
(* uniqueness rules, so every violation found comes from an operation.     *)
(***************************************************************************)
EXTENDS Integers, FiniteSets, Sequences, TLC

(* ------------------------------ bounds --------------------------------- *)
MaxTime == 2
MaxCalls == 2

Workers == {1, 2}
Students == {1, 2, 3}
StaffUsers == {10, 11}
FilePaths == {"f1", "f2"}
GradeValues == {"A", "B+"}
FeedbackTexts == {"ok"}

(* None of Python / NULL of SQL: 0 in integer columns, "None" in text ones *)
NoneInt == 0
NoneStr == "None"

(* NULL in a column where 0 is a value: a time, a score, a number of points *)
Null == -1

(* A name is text, a sequence of characters; None where a name is absent.  *)
NoneSeq == <<"None">>

(* The full names tried: empty, blank, one token, two tokens, and two      *)
(* tokens with blanks around and between them.                             *)
FullNames ==
    {<<>>, <<" ">>, <<"J">>, <<"J", " ", "D">>,
     <<" ", "J", " ", " ", "D", " ">>}

(* ------------------- mapped classes and schemas ------------------------ *)
(* Attributes of the mapped class: its columns and relationships.          *)
AssignmentSubmissionAttrs ==
    {"submission_id", "assignment_id", "student_id", "file_path", "file_name",
     "content_type", "digital_content", "feedback", "graded_by_id", "grade",
     "is_final", "created_at", "updated_at", "assignment", "student",
     "graded_by"}

QuizAttemptAttrs ==
    {"attempt_id", "quiz_id", "student_id", "started_at", "submitted_at",
     "total_score", "is_submitted", "is_graded", "quiz", "student", "answers"}

GradeAttrs ==
    {"grade_id", "student_id", "assignment_id", "quiz_id",
     "course_offering_id", "grade_value", "numeric_score", "remarks",
     "created_at", "updated_at", "student", "assignment", "quiz",
     "course_offering"}

(* Fields without a default in the schema that from_orm builds.            *)
AssignmentSubmissionSchemaRequired ==
    {"assignment_id", "student_id", "file_path", "filename", "submission_id"}

QuizAttemptSchemaRequired == {"quiz_id", "student_id", "attempt_id"}

GradeSchemaRequired ==
    {"student_id", "course_offering_id", "value", "grade_id"}

(* Methods the service classes define; a router calls them by name.        *)
AssignmentSubmissionServiceMethods ==
    {"get_by_id", "get_by_assignment_id", "get_by_student_id", "get_all",
     "create", "update", "delete"}

QuizAttemptServiceMethods ==
    {"get_by_id", "get_by_quiz_id", "get_by_student_id", "get_all",
     "create", "update", "delete"}

(* ------------------------- ORM and Python ------------------------------ *)
(* Base = declarative_base(): the default constructor rejects a keyword    *)
(* that is not an attribute of the class.                                  *)
DeclarativeConstructor(attrs, kwargs) ==
    IF kwargs \subseteq attrs THEN "ok" ELSE "TypeError"

(* Cls.name in a filter expression: plain attribute lookup on the class.   *)
ClassAttribute(attrs, name) ==
    IF name \in attrs THEN "ok" ELSE "AttributeError"

(* Service.method(...) in a router: attribute lookup on the service class. *)
ServiceAttribute(methods, name) ==
    IF name \in methods THEN "ok" ELSE "AttributeError"

(* Schemas whose configuration sets from_attributes; every other schema    *)
(* declares the key orm_mode, which the installed pydantic (the one with   *)
(* field_validator and model_validator) does not read.                     *)
FromAttributesSchemas_WithQuiz == {"User", "Quiz"}

FromAttributesSchemas == {"User"}

(* Schema.from_orm(obj): refused unless the schema sets from_attributes;   *)
(* then every required field must be an attribute of the object that holds *)
(* a value.                                                                *)
FromOrm(schema, required, present) ==
    IF schema \notin FromAttributesSchemas THEN "PydanticUserError"
    ELSE IF required \subseteq present THEN "ok" ELSE "ValidationError"

VARIABLES
    assignments,    \* rows of table assignments
    quizzes,        \* rows of table quizzes
    enrollments,    \* rows of table enrollments
    staff,          \* rows of tables professors and associate_teachers
    submissions,    \* rows of table assignment_submissions
    attempts,       \* rows of table quiz_attempts
    grades,         \* rows of table grades
    questions,      \* rows of table questions
    options,        \* rows of table question_options
    answers,        \* rows of table quiz_answers
    users,          \* rows of table users
    now,            \* the clock, in days
    cur,            \* per worker: the call it is executing (op "none": idle)
    last,           \* the call that completed most recently
    ncalls          \* number of completed calls

vars == <<assignments, quizzes, enrollments, staff, submissions, attempts,
          grades, questions, options, answers, users, now, cur, last,
          ncalls>>

quiztables == <<questions, options, answers>>

tables == <<assignments, quizzes, enrollments, staff, submissions, attempts,
            grades, quiztables, users>>

(* str.strip(): blanks removed at both ends.                               *)
RECURSIVE LStrip(_)
LStrip(t) ==
    IF t # <<>> /\ Head(t) = " " THEN LStrip(Tail(t)) ELSE t

RECURSIVE RStrip(_)
RStrip(t) ==
    IF t # <<>> /\ t[Len(t)] = " "
    THEN RStrip(SubSeq(t, 1, Len(t) - 1)) ELSE t

Strip(t) == RStrip(LStrip(t))

(* The length of the leading run of characters that are not blank.         *)
RECURSIVE TokenLen(_)
TokenLen(t) ==
    IF t = <<>> \/ Head(t) = " " THEN 0 ELSE 1 + TokenLen(Tail(t))

(* str.split(None, 1): at most two parts, cut at the first run of blanks;  *)
(* no part for text that is empty or blank.                                *)
SplitOnce(t) ==
    LET body == LStrip(t)
        n == TokenLen(body)
        rest == LStrip(SubSeq(body, n + 1, Len(body)))
    IN  IF body = <<>> THEN <<>>
        ELSE IF rest = <<>> THEN <<SubSeq(body, 1, n)>>
        ELSE <<SubSeq(body, 1, n), rest>>

(* ---------------------------- passwords -------------------------------- *)
(* hashlib.pbkdf2_hmac of a password under a salt: a value that names      *)
(* both, equal for equal arguments only.                                   *)
Pbkdf2(password, salt) == <<password, salt>>

(* hash_password: the salt and the hash, joined by a colon.                *)
hash_password(password, salt) ==
    [salt |-> salt, hash_val |-> Pbkdf2(password, salt)]

(* verify_password: the hash of the plain password under the stored salt   *)
(* is the stored hash.                                                     *)
verify_password(plain_password, hashed_password) ==
    Pbkdf2(plain_password, hashed_password.salt) = hashed_password.hash_val

(* ------------------------------ tokens --------------------------------- *)
(* A JWT: the claims sub, type and exp, and the key that signed it.        *)
NoToken == [sub |-> NoneStr, type |-> NoneStr, exp |-> Null, key |-> NoneStr]

(* An HTTP error response: status code, detail and headers.                *)
NoResponse == [status_code |-> 0, detail |-> NoneStr, headers |-> {}]

(* ------------------------------ calls ---------------------------------- *)
BlankCall ==
    [op |-> "none", w |-> 0, id |-> NoneInt, assignment_id |-> NoneInt,
     student_id |-> NoneInt, quiz_id |-> NoneInt,
     course_offering_id |-> NoneInt, file_path |-> NoneStr,
     grade |-> NoneStr, feedback |-> NoneStr, value |-> NoneStr,
     remarks |-> NoneStr, keys |-> {}, actor |-> NoneInt,
     question_id |-> NoneInt, option_id |-> NoneInt, score |-> NoneInt,
     title |-> NoneStr, status |-> NoneStr, role |-> NoneStr, roles |-> {},
     ret |-> {}, due |-> Null, ret_status |-> NoneStr,
     name |-> NoneSeq, ret_name |-> NoneSeq,
     header |-> NoneStr, token |-> NoToken, at |-> 0,
     password |-> NoneStr, salt |-> 0, resp |-> NoResponse,
     access_token |-> NoToken, refresh_token |-> NoToken,
     file |-> ([len |-> 0, ext |-> NoneStr, stream |-> NoneStr, seekable |-> FALSE,
                size |-> 0]),
     outcome |-> "none"]

Idle(p) == cur[p].op = "none"

(* Calls begun so far; the model stops accepting calls at MaxCalls.        *)
Started == ncalls + Cardinality({p \in Workers : ~Idle(p)})

CanCall(p) == Idle(p) /\ Started < MaxCalls

(* A call returns or raises: it becomes the last completed call.           *)
Complete(p, call, outcome) ==
    /\ last' = [call EXCEPT !.outcome = outcome]
    /\ ncalls' = ncalls + 1
    /\ cur' = [cur EXCEPT ![p] = BlankCall]

(* The call has built or loaded its object and stands before db.commit().  *)
Suspend(p, call) ==
    /\ cur' = [cur EXCEPT ![p] = call]
    /\ UNCHANGED <<last, ncalls>>

(* ------------------------------ rows ----------------------------------- *)
(* autoincrement primary key                                               *)
NextId(rows, pk) ==
    IF rows = {} THEN 1
    ELSE 1 + (CHOOSE m \in {r[pk] : r \in rows} :
                  \A r \in rows : r[pk] <= m)

(* INSERT: refused when a unique constraint of the table already holds the *)
(* new row's values.                                                       *)
UniqueViolation(rows, row, uniques) ==
    \E u \in uniques : \E r \in rows : \A c \in u : r[c] = row[c]

FinalRowsIn(subs, a, s) ==
    {r \in subs : r.assignment_id = a /\ r.student_id = s /\ r.is_final}

InProgressIn(atts, q, s) ==
    {r \in atts : r.quiz_id = q /\ r.student_id = s /\ ~r.is_submitted}

GradeRowsIn(grs, s, a, q) ==
    {r \in grs : r.student_id = s /\ r.assignment_id = a /\ r.quiz_id = q}

ActivelyEnrolled(s, o) ==
    \E e \in enrollments :
        e.student_id = s /\ e.course_offering_id = o /\ e.status = "active"

StaffOf(u, o) ==
    \E r \in staff : r.user_id = u /\ r.course_offering_id = o

OfferingOfAssignment(a) ==
    IF \E r \in assignments : r.assignment_id = a
    THEN (CHOOSE r \in assignments : r.assignment_id = a).course_offering_id
    ELSE NoneInt

OfferingOfQuiz(q) ==
    IF \E r \in quizzes : r.quiz_id = q
    THEN (CHOOSE r \in quizzes : r.quiz_id = q).course_offering_id
    ELSE NoneInt

DueDateOf(a) ==
    (CHOOSE r \in assignments : r.assignment_id = a).due_date

(* ------------------------------ Init ----------------------------------- *)
(* Rows written by the seeding script: assignments and quizzes of an       *)
(* offering, the enrollments, the staff of each offering, and a grade for  *)
(* some of the actively enrolled students of each assignment.              *)
SeededGrades(S) ==
    {[grade_id |-> Cardinality({x \in S : x <= s}), student_id |-> s,
      assignment_id |-> 1, quiz_id |-> NoneInt, course_offering_id |-> 1,
      grade_value |-> "A", remarks |-> NoneStr] : s \in S}

StoredAssignment(a) ==
    [assignment_id |-> a, course_offering_id |-> 1, title |-> "t1",
     due_date |-> 1, max_points |-> 100]

StoredQuiz ==
    [quiz_id |-> 1, course_offering_id |-> 1, title |-> "t1",
     duration_minutes |-> 1, total_points |-> 20]

StoredSubmission ==
    [submission_id |-> 1, assignment_id |-> 1, student_id |-> 1,
     file_path |-> "f1", feedback |-> NoneStr, grade |-> NoneStr,
     is_final |-> TRUE]

StoredAttempt ==
    [attempt_id |-> 1, quiz_id |-> 1, student_id |-> 1, started_at |-> 0,
     submitted_at |-> Null, total_score |-> Null,
     is_submitted |-> FALSE, is_graded |-> FALSE]

Init ==
    /\ assignments = {StoredAssignment(1)}
    /\ quizzes = {StoredQuiz}
    /\ questions = {}
    /\ options = {}
    /\ answers = {}
    /\ users = {}
    /\ \E third \in {"none", "dropped"} :
         enrollments =
           {[student_id |-> s, course_offering_id |-> 1, status |-> "active"]
               : s \in {1, 2}}
           \cup (IF third = "none" THEN {}
                 ELSE {[student_id |-> 3, course_offering_id |-> 1,
                        status |-> third]})
    /\ staff = {[user_id |-> 10, course_offering_id |-> 1],
                [user_id |-> 11, course_offering_id |-> 2]}
    /\ \E work \in BOOLEAN :
         /\ submissions = IF work THEN {StoredSubmission} ELSE {}
         /\ attempts = IF work THEN {StoredAttempt} ELSE {}
    /\ \E S \in {{}, {1, 2}} : grades = SeededGrades(S)
    /\ now = 0
    /\ cur = [p \in Workers |-> BlankCall]
    /\ last = BlankCall
    /\ ncalls = 0

(* --------------------- AssignmentSubmissionService --------------------- *)
(* create(db, submission_in): the constructor over submission_in.dict(), *)
(* db.add, db.commit (in Commit), db.refresh, from_orm.                    *)
AssignmentSubmissionService_create(p) ==
    /\ CanCall(p)
    /\ \E a \in {r.assignment_id : r \in assignments}, s \in Students,
          f \in FilePaths :
         LET call == [BlankCall EXCEPT
                        !.op = "AssignmentSubmissionService.create",
                        !.w = p, !.assignment_id = a, !.student_id = s,
                        !.file_path = f,
                        !.keys = ({"assignment_id", "student_id", "file_path", "filename", "submitted_at",
                                   "grade", "feedback"})]
         IN  IF DeclarativeConstructor(AssignmentSubmissionAttrs, call.keys)
                  = "ok"
             THEN Suspend(p, call)
             ELSE Complete(p, call, "TypeError")
    /\ UNCHANGED <<tables, now>>

(* update(db, submission_id, submission_in): the filter names              *)
(* AssignmentSubmission.assignment_submission_id; then first(), setattr of *)
(* the fields that were set, db.commit (in Commit), refresh, from_orm.     *)
AssignmentSubmissionService_update(p) ==
    /\ CanCall(p)
    /\ \E i \in 1..2, g \in GradeValues, fb \in FeedbackTexts :
         LET call == [BlankCall EXCEPT
                        !.op = "AssignmentSubmissionService.update",
                        !.w = p, !.id = i, !.grade = g, !.feedback = fb,
                        !.keys = {"grade", "feedback"}]
         IN  IF ClassAttribute(AssignmentSubmissionAttrs,
                               "assignment_submission_id") # "ok"
             THEN Complete(p, call, "AttributeError")
             ELSE IF ~\E r \in submissions : r.submission_id = i
             THEN Complete(p, call, "None")
             ELSE Suspend(p, call)
    /\ UNCHANGED <<tables, now>>

(* --------------------------- QuizAttemptService ------------------------ *)
(* create(db, attempt_in): the constructor over attempt_in.dict(), db.add, *)
(* db.commit (in Commit), db.refresh, from_orm.                            *)
QuizAttemptService_create(p) ==
    /\ CanCall(p)
    /\ \E q \in {r.quiz_id : r \in quizzes}, s \in Students :
         LET call == [BlankCall EXCEPT
                        !.op = "QuizAttemptService.create", !.w = p,
                        !.quiz_id = q, !.student_id = s,
                        !.keys = ({"quiz_id", "student_id", "start_time", "end_time", "score", "status",
                                   "feedback"})]
         IN  IF DeclarativeConstructor(QuizAttemptAttrs, call.keys) = "ok"
             THEN Suspend(p, call)
             ELSE Complete(p, call, "TypeError")
    /\ UNCHANGED <<tables, now>>

(* ------------------------------ GradeService --------------------------- *)
(* create(db, grade_in): the constructor over grade_in.dict(), db.add, db.commit (in *)
(* Commit), db.refresh, from_orm.                                          *)
GradeService_create(p) ==
    /\ CanCall(p)
    /\ \E s \in Students, a \in {r.assignment_id : r \in assignments},
          v \in GradeValues :
         LET call == [BlankCall EXCEPT
                        !.op = "GradeService.create", !.w = p,
                        !.student_id = s, !.assignment_id = a,
                        !.course_offering_id = OfferingOfAssignment(a),
                        !.value = v, !.keys = ({"student_id", "course_offering_id", "assignment_id", "quiz_id", "value",
                                                "weight", "remarks"})]
         IN  IF DeclarativeConstructor(GradeAttrs, call.keys) = "ok"
             THEN Suspend(p, call)
             ELSE Complete(p, call, "TypeError")
    /\ UNCHANGED <<tables, now>>

(* update(db, grade_id, grade_in): query by Grade.grade_id, None when      *)
(* there is no row, setattr per key, db.commit (in Commit), refresh,       *)
(* from_orm.                                                               *)
GradeService_update(p) ==
    /\ CanCall(p)
    /\ \E i \in 1..2, patch \in ({[keys |-> {"value"}, student_id |-> NoneInt, value |-> v,
                                   remarks |-> NoneStr] : v \in GradeValues}
                                 \cup {[keys |-> {"student_id"}, student_id |-> s, value |-> NoneStr,
                                        remarks |-> NoneStr] : s \in Students}) :
         LET call == [BlankCall EXCEPT
                        !.op = "GradeService.update", !.w = p, !.id = i,
                        !.student_id = patch.student_id,
                        !.value = patch.value, !.remarks = patch.remarks,
                        !.keys = patch.keys]
         IN  IF ClassAttribute(GradeAttrs, "grade_id") # "ok"
             THEN Complete(p, call, "AttributeError")
             ELSE IF ~\E r \in grades : r.grade_id = i
             THEN Complete(p, call, "None")
             ELSE Suspend(p, call)
    /\ UNCHANGED <<tables, now>>

(* delete(db, grade_id): query by Grade.grade_id, False when there is no   *)
(* row, db.delete, db.commit (in Commit), True.                            *)
GradeService_delete(p) ==
    /\ CanCall(p)
    /\ \E i \in 1..2 :
         LET call == [BlankCall EXCEPT
                        !.op = "GradeService.delete", !.w = p, !.id = i]
         IN  IF ClassAttribute(GradeAttrs, "grade_id") # "ok"
             THEN Complete(p, call, "AttributeError")
             ELSE IF ~\E r \in grades : r.grade_id = i
             THEN Complete(p, call, "False")
             ELSE Suspend(p, call)
    /\ UNCHANGED <<tables, now>>

(* ======================= quizzes, attempts, answers ==================== *)
QuizAttrs ==
    {"quiz_id", "course_offering_id", "assignment_id", "title",
     "description", "start_date", "end_date", "duration_minutes",
     "total_points", "created_at", "updated_at", "course_offering",
     "assignment", "questions", "attempts", "files"}

QuizAnswerAttrs ==
    {"answer_id", "attempt_id", "question_id", "student_id", "answer_text",
     "selected_option_id", "is_correct", "score_awarded", "feedback",
     "created_at", "updated_at", "attempt", "question", "student",
     "selected_option"}

QuizAnswerCreateKeys ==
    {"quiz_id", "question_id", "student_id", "selected_option_id",
     "answer_text", "is_correct", "grade", "feedback"}

QuizSchemaRequired == {"course_offering_id", "title", "quiz_id"}

QuestionPoints == 10

(* Two questions of quiz 1, each with one correct and one wrong option;    *)
(* the second question is a choice question or a free-text one.            *)
StoredQuestions(kind2) ==
    {[question_id |-> 1, quiz_id |-> 1, question_type |-> "MCQ",
      points |-> QuestionPoints],
     [question_id |-> 2, quiz_id |-> 1, question_type |-> kind2,
      points |-> QuestionPoints]}

StoredOptions(kind2) ==
    {[option_id |-> 1, question_id |-> 1, is_correct |-> TRUE],
     [option_id |-> 2, question_id |-> 1, is_correct |-> FALSE]}
    \cup (IF kind2 = "MCQ"
          THEN {[option_id |-> 3, question_id |-> 2, is_correct |-> TRUE],
                [option_id |-> 4, question_id |-> 2, is_correct |-> FALSE]}
          ELSE {})

(* Answers of attempt 1: a choice on question 1 and, for a choice          *)
(* question 2, a choice on it, else a text.                                *)
StoredAnswers(kind2, graded) ==
    {[answer_id |-> 1, attempt_id |-> 1, question_id |-> 1, student_id |-> 1,
      selected_option_id |-> 1, answer_text |-> NoneStr,
      score_awarded |-> IF graded THEN QuestionPoints ELSE Null],
     [answer_id |-> 2, attempt_id |-> 1, question_id |-> 2, student_id |-> 1,
      selected_option_id |-> IF kind2 = "MCQ" THEN 4 ELSE NoneInt,
      answer_text |-> IF kind2 = "MCQ" THEN NoneStr ELSE "text",
      score_awarded |-> IF graded /\ kind2 = "MCQ" THEN 0 ELSE Null]}

(* A stored attempt that was submitted and scored: its total is the sum of *)
(* the scores of its answers.                                              *)
SubmittedAttempt ==
    [StoredAttempt EXCEPT !.submitted_at = 0, !.total_score = QuestionPoints,
                          !.is_submitted = TRUE]

QuizInit ==
    /\ assignments = {}
    /\ submissions = {}
    /\ grades = {}
    /\ users = {}
    /\ quizzes = {StoredQuiz}
    /\ enrollments =
         {[student_id |-> s, course_offering_id |-> 1, status |-> "active"]
             : s \in {1, 2}}
    /\ staff = {[user_id |-> 10, course_offering_id |-> 1],
                [user_id |-> 11, course_offering_id |-> 2]}
    /\ \E kind2 \in {"MCQ", "short_answer"}, submitted \in BOOLEAN :
         /\ questions = StoredQuestions(kind2)
         /\ options = StoredOptions(kind2)
         /\ attempts = IF submitted THEN {SubmittedAttempt}
                       ELSE {StoredAttempt}
         /\ answers = StoredAnswers(kind2, submitted)
    /\ now = 0
    /\ cur = [p \in Workers |-> BlankCall]
    /\ last = BlankCall
    /\ ncalls = 0

(* update(db, quiz_attempt_id, attempt_in): the filter names               *)
(* QuizAttempt.quiz_attempt_id; then first(), setattr of the fields that   *)
(* were set, db.commit (in Commit), refresh, from_orm.  The patch tried is *)
(* the one that submits: status and end_time.                              *)
QuizAttemptService_update(p) ==
    /\ CanCall(p)
    /\ \E i \in 1..2 :
         LET call == [BlankCall EXCEPT
                        !.op = "QuizAttemptService.update", !.w = p,
                        !.id = i, !.status = "completed",
                        !.keys = {"status", "end_time"}]
         IN  IF ClassAttribute(QuizAttemptAttrs, "quiz_attempt_id") # "ok"
             THEN Complete(p, call, "AttributeError")
             ELSE IF ~\E r \in attempts : r.attempt_id = i
             THEN Complete(p, call, "None")
             ELSE Suspend(p, call)
    /\ UNCHANGED <<tables, now>>

(* PATCH /quiz-attempts/{attempt_id}: the handler calls                    *)
(* QuizAttemptService.update_attempt for the current user.                 *)
update_quiz_attempt(p) ==
    /\ CanCall(p)
    /\ \E i \in 1..2, u \in Students :
         Complete(p, [BlankCall EXCEPT
                        !.op = "update_quiz_attempt", !.w = p, !.id = i,
                        !.actor = u, !.status = "completed",
                        !.keys = {"status", "end_time"}],
                  ServiceAttribute(QuizAttemptServiceMethods,
                                   "update_attempt"))
    /\ UNCHANGED <<tables, now>>

(* create(db, answer_in): the constructor over answer_in.dict(), db.add,   *)
(* db.commit (in Commit), db.refresh, from_orm.  The schema names the quiz *)
(* and the student, not the attempt.                                       *)
QuizAnswerService_create(p) ==
    /\ CanCall(p)
    /\ \E x \in {r.question_id : r \in questions}, s \in Students,
          o \in {r.option_id : r \in options} \cup {NoneInt} :
         LET call == [BlankCall EXCEPT
                        !.op = "QuizAnswerService.create", !.w = p,
                        !.quiz_id = 1, !.question_id = x, !.student_id = s,
                        !.option_id = o,
                        !.keys = QuizAnswerCreateKeys]
         IN  IF DeclarativeConstructor(QuizAnswerAttrs, call.keys) = "ok"
             THEN Suspend(p, call)
             ELSE Complete(p, call, "TypeError")
    /\ UNCHANGED <<tables, now>>

(* update(db, quiz_answer_id, answer_in): the filter names                 *)
(* QuizAnswer.quiz_answer_id; then first(), setattr per key, db.commit (in *)
(* Commit), refresh, from_orm.                                             *)
QuizAnswerService_update(p) ==
    /\ CanCall(p)
    /\ \E i \in 1..2, patch \in ({[keys |-> {"grade"}, score |-> g, option_id |-> NoneInt] : g \in {0, 10}}
                                 \cup {[keys |-> {"selected_option_id"}, score |-> NoneInt,
                                        option_id |-> o] : o \in 1..2}) :
         LET call == [BlankCall EXCEPT
                        !.op = "QuizAnswerService.update", !.w = p,
                        !.id = i, !.score = patch.score,
                        !.option_id = patch.option_id,
                        !.keys = patch.keys]
         IN  IF ClassAttribute(QuizAnswerAttrs, "quiz_answer_id") # "ok"
             THEN Complete(p, call, "AttributeError")
             ELSE IF ~\E r \in answers : r.answer_id = i
             THEN Complete(p, call, "None")
             ELSE Suspend(p, call)
    /\ UNCHANGED <<tables, now>>

(* POST /quiz-answers/: the handler calls QuizAnswerService.submit_answer  *)
(* for the current user.                                                   *)
submit_quiz_answer(p) ==
    /\ CanCall(p)
    /\ \E x \in {r.question_id : r \in questions}, u \in Students,
          o \in {r.option_id : r \in options} \cup {NoneInt} :
         Complete(p, [BlankCall EXCEPT
                        !.op = "submit_quiz_answer", !.w = p,
                        !.quiz_id = 1, !.question_id = x, !.student_id = u,
                        !.actor = u, !.option_id = o,
                        !.keys = QuizAnswerCreateKeys],
                  ServiceAttribute(({"get_by_id", "get_by_quiz_submission_id", "get_all", "create", "update",
                                     "delete"}),
                                   "submit_answer"))
    /\ UNCHANGED <<tables, now>>

(* QuizService.update(db, quiz_id, quiz_in): query by Quiz.quiz_id, None   *)
(* when there is no row, setattr per key, db.commit (in Commit), refresh,  *)
(* from_orm.                                                               *)
QuizService_update(p) ==
    /\ CanCall(p)
    /\ \E i \in 1..2, patch \in ({[keys |-> {"duration_minutes"}, duration_minutes |-> 2,
                                   status |-> NoneStr],
                                  [keys |-> {"status"}, duration_minutes |-> NoneInt,
                                   status |-> "published"]}) :
         LET call == [BlankCall EXCEPT
                        !.op = "QuizService.update", !.w = p, !.id = i,
                        !.score = patch.duration_minutes,
                        !.status = patch.status, !.keys = patch.keys]
         IN  IF ClassAttribute(QuizAttrs, "quiz_id") # "ok"
             THEN Complete(p, call, "AttributeError")
             ELSE IF ~\E r \in quizzes : r.quiz_id = i
             THEN Complete(p, call, "None")
             ELSE Suspend(p, call)
    /\ UNCHANGED <<tables, now>>

(* ------------------------------ quiz reads ----------------------------- *)
QuizServiceMethods ==
    {"get_by_id", "get_by_course_offering_id", "get_all", "create", "update",
     "delete"}

(* What a read returns for the rows its query selects: from_orm of each,   *)
(* in a list that the first failure abandons.                              *)
ReadOutcome(rows) ==
    IF rows = {} THEN "ok"
    ELSE FromOrm("Quiz", QuizSchemaRequired,
                 DOMAIN (CHOOSE r \in rows : TRUE))

ReadResult(rows) ==
    IF ReadOutcome(rows) = "ok" THEN {r.quiz_id : r \in rows} ELSE {}

(* get_by_id(db, quiz_id): first() of the query by Quiz.quiz_id, from_orm  *)
(* of the row, None when there is none.                                    *)
QuizService_get_by_id(p) ==
    /\ CanCall(p)
    /\ \E i \in 1..2 :
         LET rows == {r \in quizzes : r.quiz_id = i}
             call == [BlankCall EXCEPT
                        !.op = "QuizService.get_by_id", !.w = p, !.id = i,
                        !.ret = ReadResult(rows)]
         IN  Complete(p, call,
                      IF rows = {} THEN "None" ELSE ReadOutcome(rows))
    /\ UNCHANGED <<tables, now>>

(* get_by_course_offering_id(db, course_offering_id): all() of the query   *)
(* by Quiz.course_offering_id, from_orm of each row.                       *)
QuizService_get_by_course_offering_id(p) ==
    /\ CanCall(p)
    /\ \E o \in 1..2 :
         LET rows == {r \in quizzes : r.course_offering_id = o}
             call == [BlankCall EXCEPT
                        !.op = "QuizService.get_by_course_offering_id",
                        !.w = p, !.course_offering_id = o,
                        !.ret = ReadResult(rows)]
         IN  Complete(p, call, ReadOutcome(rows))
    /\ UNCHANGED <<tables, now>>

(* get_all(db, skip=0, limit=100): all() of the unfiltered query, from_orm *)
(* of each row.                                                            *)
QuizService_get_all(p) ==
    /\ CanCall(p)
    /\ LET call == [BlankCall EXCEPT
                      !.op = "QuizService.get_all", !.w = p,
                      !.ret = ReadResult(quizzes)]
       IN  Complete(p, call, ReadOutcome(quizzes))
    /\ UNCHANGED <<tables, now>>

(* GET /quizzes/{quiz_id}: the handler calls QuizService.get_quiz_by_id    *)
(* for the current user.                                                   *)
get_quiz(p) ==
    /\ CanCall(p)
    /\ \E i \in 1..2, u \in Students :
         Complete(p, [BlankCall EXCEPT
                        !.op = "get_quiz", !.w = p, !.id = i, !.actor = u],
                  ServiceAttribute(QuizServiceMethods, "get_quiz_by_id"))
    /\ UNCHANGED <<tables, now>>

(* GET /quizzes/section-group/{section_group_id}: the handler calls        *)
(* QuizService.list_quizzes_by_section_group for the current user.         *)
list_quizzes_for_section_group(p) ==
    /\ CanCall(p)
    /\ \E g \in 1..2, u \in Students :
         Complete(p, [BlankCall EXCEPT
                        !.op = "list_quizzes_for_section_group", !.w = p,
                        !.id = g, !.actor = u],
                  ServiceAttribute(QuizServiceMethods,
                                   "list_quizzes_by_section_group"))
    /\ UNCHANGED <<tables, now>>

(* ------------------------------ assignments ---------------------------- *)
AssignmentAttrs ==
    {"assignment_id", "course_offering_id", "title", "description",
     "due_date", "max_points", "created_at", "updated_at", "course_offering",
     "files", "submissions"}

AssignmentServiceMethods ==
    {"get_by_id", "get_by_course_offering_id", "get_all", "create", "update",
     "delete"}

(* A datetime is counted in hours, a date in days.                         *)
HoursPerDay == 24

AssignmentInit ==
    /\ assignments = {StoredAssignment(1), StoredAssignment(2)}
    /\ quizzes = {}
    /\ attempts = {}
    /\ questions = {}
    /\ options = {}
    /\ answers = {}
    /\ users = {}
    /\ enrollments =
         {[student_id |-> s, course_offering_id |-> 1, status |-> "active"]
             : s \in {1, 2}}
    /\ staff = {[user_id |-> 10, course_offering_id |-> 1],
                [user_id |-> 11, course_offering_id |-> 2]}
    /\ \E work \in BOOLEAN :
         submissions = IF work THEN {StoredSubmission} ELSE {}
    /\ \E S \in {{}, {1}} : grades = SeededGrades(S)
    /\ now = 0
    /\ cur = [p \in Workers |-> BlankCall]
    /\ last = BlankCall
    /\ ncalls = 0

(* A store with rows in every table the four CRUD services work on: two    *)
(* assignments, a submission and possibly a grade for the first, a quiz    *)
(* with its questions, an attempt with its answers, and a grade for the    *)
(* quiz.                                                                   *)
CrudInit ==
    /\ assignments = {StoredAssignment(1), StoredAssignment(2)}
    /\ quizzes = {StoredQuiz}
    /\ questions = StoredQuestions("MCQ")
    /\ options = StoredOptions("MCQ")
    /\ users = {}
    /\ enrollments =
         {[student_id |-> s, course_offering_id |-> 1, status |-> "active"]
             : s \in {1, 2}}
    /\ staff = {[user_id |-> 10, course_offering_id |-> 1],
                [user_id |-> 11, course_offering_id |-> 2]}
    /\ submissions = {StoredSubmission}
    /\ \E submitted \in BOOLEAN :
         /\ attempts = IF submitted THEN {SubmittedAttempt}
                       ELSE {StoredAttempt}
         /\ answers = StoredAnswers("MCQ", submitted)
    /\ \E S \in {{}, {1}} :
         grades = SeededGrades(S) \cup {([grade_id |-> (Cardinality(S) + 1), student_id |-> 1, assignment_id |-> NoneInt,
                                          quiz_id |-> 1, course_offering_id |-> 1, grade_value |-> "B",
                                          remarks |-> NoneStr])}
    /\ now = 0
    /\ cur = [p \in Workers |-> BlankCall]
    /\ last = BlankCall
    /\ ncalls = 0

(* The patches of AssignmentUpdate tried.                                  *)
AssignmentPatches ==
    {[keys |-> {"title"}, title |-> "t2", score |-> NoneInt,
      status |-> NoneStr, due |-> Null],
     [keys |-> {"total_points"}, title |-> NoneStr, score |-> 50,
      status |-> NoneStr, due |-> Null],
     [keys |-> {"status"}, title |-> NoneStr, score |-> NoneInt,
      status |-> "archived", due |-> Null]}
    \cup {[keys |-> {"due_date"}, title |-> NoneStr, score |-> NoneInt,
           status |-> NoneStr, due |-> d]
             : d \in {2 * HoursPerDay, 2 * HoursPerDay + 12}}

(* update(db, assignment_id, assignment_in): query by                      *)
(* Assignment.assignment_id, None when there is no row, setattr per key,   *)
(* db.commit (in Commit), refresh, from_orm.                               *)
AssignmentService_update(p) ==
    /\ CanCall(p)
    /\ \E i \in 1..3, patch \in AssignmentPatches :
         LET call == [BlankCall EXCEPT
                        !.op = "AssignmentService.update", !.w = p,
                        !.id = i, !.title = patch.title,
                        !.score = patch.score, !.status = patch.status,
                        !.due = patch.due, !.keys = patch.keys]
         IN  IF ClassAttribute(AssignmentAttrs, "assignment_id") # "ok"
             THEN Complete(p, call, "AttributeError")
             ELSE IF ~\E r \in assignments : r.assignment_id = i
             THEN Complete(p, call, "None")
             ELSE Suspend(p, call)
    /\ UNCHANGED <<tables, now>>

(* delete(db, assignment_id): query by Assignment.assignment_id, False     *)
(* when there is no row, db.delete, db.commit (in Commit), True.           *)
AssignmentService_delete(p) ==
    /\ CanCall(p)
    /\ \E i \in 1..3 :
         LET call == [BlankCall EXCEPT
                        !.op = "AssignmentService.delete", !.w = p,
                        !.id = i]
         IN  IF ClassAttribute(AssignmentAttrs, "assignment_id") # "ok"
             THEN Complete(p, call, "AttributeError")
             ELSE IF ~\E r \in assignments : r.assignment_id = i
             THEN Complete(p, call, "False")
             ELSE Suspend(p, call)
    /\ UNCHANGED <<tables, now>>

(* AssignmentSubmissionService.delete(db, submission_id): the filter      *)
(* names AssignmentSubmission.assignment_submission_id; then first(),      *)
(* False when there is no row, db.delete, db.commit (in Commit), True.     *)
AssignmentSubmissionService_delete(p) ==
    /\ CanCall(p)
    /\ \E i \in 1..2 :
         LET call == [BlankCall EXCEPT
                        !.op = "AssignmentSubmissionService.delete",
                        !.w = p, !.id = i]
         IN  IF ClassAttribute(AssignmentSubmissionAttrs,
                               "assignment_submission_id") # "ok"
             THEN Complete(p, call, "AttributeError")
             ELSE IF ~\E r \in submissions : r.submission_id = i
             THEN Complete(p, call, "False")
             ELSE Suspend(p, call)
    /\ UNCHANGED <<tables, now>>

(* QuizAttemptService.delete(db, attempt_id): the filter names             *)
(* QuizAttempt.quiz_attempt_id; then first(), False when there is no row,  *)
(* db.delete, db.commit (in Commit), True.                                 *)
QuizAttemptService_delete(p) ==
    /\ CanCall(p)
    /\ \E i \in 1..2 :
         LET call == [BlankCall EXCEPT
                        !.op = "QuizAttemptService.delete", !.w = p,
                        !.id = i]
         IN  IF ClassAttribute(QuizAttemptAttrs, "quiz_attempt_id") # "ok"
             THEN Complete(p, call, "AttributeError")
             ELSE IF ~\E r \in attempts : r.attempt_id = i
             THEN Complete(p, call, "False")
             ELSE Suspend(p, call)
    /\ UNCHANGED <<tables, now>>

(* QuizService.delete(db, quiz_id): query by Quiz.quiz_id, False when      *)
(* there is no row, db.delete, db.commit (in Commit), True.                *)
QuizService_delete(p) ==
    /\ CanCall(p)
    /\ \E i \in 1..2 :
         LET call == [BlankCall EXCEPT
                        !.op = "QuizService.delete", !.w = p, !.id = i]
         IN  IF ClassAttribute(QuizAttrs, "quiz_id") # "ok"
             THEN Complete(p, call, "AttributeError")
             ELSE IF ~\E r \in quizzes : r.quiz_id = i
             THEN Complete(p, call, "False")
             ELSE Suspend(p, call)
    /\ UNCHANGED <<tables, now>>

(* PATCH /assignments/{assignment_id}: the handler calls                   *)
(* AssignmentService.update_assignment for the current user.               *)
update_assignment(p) ==
    /\ CanCall(p)
    /\ \E i \in 1..3, u \in StaffUsers, patch \in AssignmentPatches :
         Complete(p, [BlankCall EXCEPT
                        !.op = "update_assignment", !.w = p, !.id = i,
                        !.actor = u, !.title = patch.title,
                        !.score = patch.score, !.status = patch.status,
                        !.due = patch.due, !.keys = patch.keys],
                  ServiceAttribute(AssignmentServiceMethods,
                                   "update_assignment"))
    /\ UNCHANGED <<tables, now>>

(* DELETE /assignments/{assignment_id}: the handler calls                  *)
(* AssignmentService.delete_assignment for the current user.               *)
delete_assignment(p) ==
    /\ CanCall(p)
    /\ \E i \in 1..3, u \in StaffUsers :
         Complete(p, [BlankCall EXCEPT
                        !.op = "delete_assignment", !.w = p, !.id = i,
                        !.actor = u],
                  ServiceAttribute(AssignmentServiceMethods,
                                   "delete_assignment"))
    /\ UNCHANGED <<tables, now>>

(* The commit of update: setattr per key, of which title and due_date are  *)
(* columns of assignments (due_date a Date, so a datetime keeps its day)   *)
(* while total_points and status are not; then refresh and from_orm.       *)
CommitAssignmentUpdate(p, call) ==
    /\ IF \E r \in assignments : r.assignment_id = call.id
       THEN LET r == CHOOSE x \in assignments : x.assignment_id = call.id
            IN  /\ assignments' =
                     (assignments \ {r}) \cup {([r EXCEPT
                                                   !.title = IF "title" \in call.keys THEN call.title ELSE @,
                                                   !.due_date = IF "due_date" \in call.keys THEN (call.due \div HoursPerDay)
                                                                ELSE @])}
                /\ Complete(p, call,
                     FromOrm("Assignment", {"course_offering_id", "title", "assignment_id"},
                             DOMAIN r \cup call.keys))
       ELSE /\ Complete(p, call, "ObjectGone")
            /\ UNCHANGED assignments
    /\ UNCHANGED <<quizzes, enrollments, staff, submissions, attempts,
                   grades, quiztables, users>>

(* db.delete(assignment_obj) and the commit: relationship submissions has  *)
(* cascade all, delete-orphan, so the submissions of the assignment are    *)
(* deleted with it; grades.assignment_id is ON DELETE SET NULL, which the  *)
(* database applies when it enforces foreign keys (fk).                    *)
CommitAssignmentDelete(p, call) ==
    /\ assignments' = {r \in assignments : r.assignment_id # call.id}
    /\ submissions' = {r \in submissions : r.assignment_id # call.id}
    /\ \E fk \in BOOLEAN :
         grades' = IF fk
                   THEN {IF r.assignment_id = call.id
                         THEN [r EXCEPT !.assignment_id = NoneInt]
                         ELSE r : r \in grades}
                   ELSE grades
    /\ Complete(p, call, "True")
    /\ UNCHANGED <<quizzes, enrollments, staff, attempts, quiztables, users>>

(* db.delete of a submission: no relationship of AssignmentSubmission     *)
(* cascades.                                                               *)
CommitSubmissionDelete(p, call) ==
    /\ submissions' = {r \in submissions : r.submission_id # call.id}
    /\ Complete(p, call, "True")
    /\ UNCHANGED <<assignments, quizzes, enrollments, staff, attempts, grades,
                   quiztables, users>>

(* db.delete of an attempt: QuizAttempt.answers cascades "all,            *)
(* delete-orphan", so the unit of work deletes the attempt's answers.      *)
CommitAttemptDelete(p, call) ==
    /\ attempts' = {r \in attempts : r.attempt_id # call.id}
    /\ answers' = {r \in answers : r.attempt_id # call.id}
    /\ Complete(p, call, "True")
    /\ UNCHANGED <<assignments, quizzes, enrollments, staff, submissions,
                   grades, questions, options, users>>

(* db.delete of a quiz: Quiz.questions and Quiz.attempts cascade "all,    *)
(* delete-orphan", and so do Question.options and QuizAttempt.answers, so  *)
(* the unit of work deletes them. Grade.quiz_id and QuizAnswer.question_id *)
(* are followed by no relationship of Quiz: ondelete="SET NULL" and        *)
(* ondelete="CASCADE" act only where the database enforces foreign keys    *)
(* (fk); the engine of core/database.py is built from DATABASE_URL, by     *)
(* default sqlite, with no foreign_keys pragma.                            *)
CommitQuizDelete(p, call) ==
    LET gone_attempts == {r.attempt_id : r \in {x \in attempts :
                                                  x.quiz_id = call.id}}
        gone_questions == {r.question_id : r \in {x \in questions :
                                                    x.quiz_id = call.id}}
    IN  /\ quizzes' = {r \in quizzes : r.quiz_id # call.id}
        /\ questions' = {r \in questions : r.quiz_id # call.id}
        /\ options' = {r \in options : r.question_id \notin gone_questions}
        /\ attempts' = {r \in attempts : r.quiz_id # call.id}
        /\ \E fk \in BOOLEAN :
             /\ answers' = {r \in answers :
                              /\ r.attempt_id \notin gone_attempts
                              /\ fk => r.question_id \notin gone_questions}
             /\ grades' = IF fk
                          THEN {IF r.quiz_id = call.id
                                THEN [r EXCEPT !.quiz_id = NoneInt]
                                ELSE r : r \in grades}
                          ELSE grades
        /\ Complete(p, call, "True")
        /\ UNCHANGED <<assignments, enrollments, staff, submissions, users>>

(* ------------------------------ core/auth ------------------------------ *)
UserRoles_Lowered(role) ==
    IF role # NoneStr THEN {IF role = "Admin" THEN "admin" ELSE role} ELSE {}

(* user_roles = {current_user.role.name} if current_user.role else set()   *)
UserRoles(role) ==
    IF role # NoneStr THEN {role} ELSE {}

(* require_role(required_roles)(current_user): the user itself when it has *)
(* one of the roles, else HTTPException 403 with the detail.               *)
require_role(p) ==
    /\ CanCall(p)
    /\ \E u \in StaffUsers, role \in {"admin", "Admin", "student"} \cup {NoneStr},
          R \in SUBSET {"admin", "professor", "student"} :
         LET call == [BlankCall EXCEPT
                        !.op = "require_role", !.w = p, !.actor = u,
                        !.role = role, !.roles = R]
         IN  IF (\E r \in R : r \in UserRoles(role))
             THEN Complete(p, [call EXCEPT !.ret = {u}], "ok")
             ELSE Complete(p, [call EXCEPT !.feedback = "User lacks required role(s)"],
                           "HTTP_403_FORBIDDEN")
    /\ UNCHANGED <<tables, now>>

EmptyStore ==
    /\ assignments = {}
    /\ quizzes = {}
    /\ enrollments = {}
    /\ staff = {}
    /\ submissions = {}
    /\ attempts = {}
    /\ grades = {}
    /\ questions = {}
    /\ options = {}
    /\ answers = {}

AuthInit ==
    /\ EmptyStore
    /\ users = {}
    /\ now = 0
    /\ cur = [p \in Workers |-> BlankCall]
    /\ last = BlankCall
    /\ ncalls = 0

(* ----------------------------- UserService ---------------------------- *)
(* Required fields of the User schema.                                     *)
UserSchemaRequired == {"username", "email", "user_id"}

Statuses == {"active", "inactive", "suspended"}

(* user_data["is_active"] = (status == "active")                           *)
IsActiveOf(status) == status = "active"

(* extract_model_fields: 'active' if is_active else 'inactive'             *)
StatusOf(is_active) == IF is_active THEN "active" ELSE "inactive"

(* user_data.pop("status"), user_data["is_active"] = ..., then the filter  *)
(* on model_fields.                                                        *)
FilteredData(data) ==
    (IF "status" \in data THEN (data \ {"status"}) \cup {"is_active"}
     ELSE data) \cap ({"username", "email", "password_hash", "first_name", "last_name",
                       "is_active", "is_verified", "role_id", "specialization_id"})

StoredUser(i, name, mail, active) ==
    [user_id |-> i, username |-> name, email |-> mail,
     password_hash |-> hash_password("pw1", 1),
     first_name |-> <<"f">>, last_name |-> <<"l">>,
     is_active |-> active, last_login |-> Null]

(* User.full_name, the hybrid property over first_name and last_name.      *)
full_name(r) ==
    IF r.first_name # <<>> /\ r.last_name # <<>>
    THEN r.first_name \o <<" ">> \o r.last_name
    ELSE IF r.first_name # <<>> THEN r.first_name
    ELSE r.last_name

(* extract_model_fields hands the validation dict(values.__dict__) plus    *)
(* status: the loaded columns of the instance.  A property of the class is *)
(* not among them, so the schema field full_name keeps its default None.   *)
SchemaFullName(r) ==
    IF "full_name" \in DOMAIN r THEN r.full_name ELSE NoneSeq

UserInit ==
    /\ EmptyStore
    /\ \E active \in BOOLEAN :
         users = {StoredUser(1, "u1", "e1", active),
                  StoredUser(2, "u2", "e2", TRUE)}
    /\ now = 0
    /\ cur = [p \in Workers |-> BlankCall]
    /\ last = BlankCall
    /\ ncalls = 0

(* get_by_id(db, user_id): the row through UserSchema.from_orm, or None.   *)
UserService_get_by_id(p) ==
    /\ CanCall(p)
    /\ \E i \in 1..3 :
         LET call == [BlankCall EXCEPT
                        !.op = "UserService.get_by_id", !.w = p, !.id = i]
         IN  IF ~\E r \in users : r.user_id = i
             THEN Complete(p, call, "None")
             ELSE LET r == CHOOSE x \in users : x.user_id = i
                      out == FromOrm("User", UserSchemaRequired, DOMAIN r)
                  IN  Complete(p,
                        [call EXCEPT
                           !.ret = {i},
                           !.ret_name = SchemaFullName(r),
                           !.ret_status = IF out = "ok"
                                          THEN StatusOf(r.is_active)
                                          ELSE NoneStr],
                        out)
    /\ UNCHANGED <<tables, now>>

(* create(db, user_in): status popped and mapped to is_active, the dict    *)
(* filtered on model_fields, the User constructor, db.add, db.commit (in  *)
(* Commit), refresh, from_orm.                                             *)
UserService_create(p) ==
    /\ CanCall(p)
    /\ \E name \in {"u1", "u3"}, mail \in {"e3"}, st \in Statuses,
          fn \in FullNames \cup {NoneSeq} :
         LET call == [BlankCall EXCEPT
                        !.op = "UserService.create", !.w = p,
                        !.title = name, !.file_path = mail, !.status = st,
                        !.name = fn,
                        !.keys = FilteredData(({"username", "email", "full_name", "phone", "status",
                                                "profile_image_path", "role", "password"}))]
         IN  IF DeclarativeConstructor(({"user_id", "username", "email", "password_hash", "first_name",
                                         "last_name", "phone", "profile_image_path", "is_active", "is_verified",
                                         "role_id", "specialization_id", "last_login", "created_at",
                                         "updated_at", "role", "full_name"}), call.keys) # "ok"
             THEN Complete(p, call, "TypeError")
             ELSE Suspend(p, call)
    /\ UNCHANGED <<tables, now>>

(* update(db, user_id, user_in): None when there is no row, status mapped  *)
(* to is_active when present, the dict filtered on model_fields, setattr   *)
(* per key, db.commit (in Commit), refresh, from_orm.                      *)
UserService_update(p) ==
    /\ CanCall(p)
    /\ \E i \in 1..3, patch \in ({[keys |-> {"status"}, title |-> NoneStr, status |-> st,
                                   name |-> NoneSeq] : st \in Statuses}
                                 \cup {[keys |-> {"full_name"}, title |-> NoneStr, status |-> NoneStr,
                                        name |-> fn] : fn \in FullNames}
                                 \cup {[keys |-> {"username"}, title |-> name, status |-> NoneStr,
                                        name |-> NoneSeq] : name \in {"u2", "u3"}}) :
         LET call == [BlankCall EXCEPT
                        !.op = "UserService.update", !.w = p, !.id = i,
                        !.title = patch.title, !.status = patch.status,
                        !.name = patch.name,
                        !.keys = FilteredData(patch.keys)]
         IN  IF ~\E r \in users : r.user_id = i
             THEN Complete(p, call, "None")
             ELSE Suspend(p, call)
    /\ UNCHANGED <<tables, now>>

(* delete(db, user_id): False when there is no row, db.delete, db.commit   *)
(* (in Commit), True.                                                      *)
UserService_delete(p) ==
    /\ CanCall(p)
    /\ \E i \in 1..3 :
         LET call == [BlankCall EXCEPT
                        !.op = "UserService.delete", !.w = p, !.id = i]
         IN  IF ~\E r \in users : r.user_id = i
             THEN Complete(p, call, "False")
             ELSE Suspend(p, call)
    /\ UNCHANGED <<tables, now>>

(* ----------------------- tokens and current user ----------------------- *)
(* settings.SECRET_KEY, and a key that is not it.                          *)
SECRET_KEY == "SECRET_KEY"

Keys == {SECRET_KEY, "other"}

(* JWT_ACCESS_TOKEN_EXPIRES_MINUTES and JWT_REFRESH_TOKEN_EXPIRES_MINUTES, *)
(* in hours, the unit of the clock.                                        *)
JWT_ACCESS_TOKEN_EXPIRES == 1

JWT_REFRESH_TOKEN_EXPIRES == 168

(* str(user_id) and int(sub) on the ids and subs in use.                   *)
StrOfId == [i \in 1..3 |-> CASE i = 1 -> "1" [] i = 2 -> "2" [] i = 3 -> "3"]

IntOfSub(sub) ==
    IF \E i \in DOMAIN StrOfId : StrOfId[i] = sub
    THEN CHOOSE i \in DOMAIN StrOfId : StrOfId[i] = sub
    ELSE NoneInt

(* create_access_token(data, expires_delta): the data, exp = utcnow +      *)
(* expires_delta, signed with SECRET_KEY.                                  *)
create_access_token(sub, type, expires_delta) ==
    [sub |-> sub, type |-> type, exp |-> now + expires_delta,
     key |-> SECRET_KEY]

(* The Authorization headers and the tokens presented.                     *)
Headers == {NoneStr, "Basic", "Bearer"}

Tokens ==
    [sub : {"1", "3", "x", NoneStr}, type : {NoneStr, "refresh"},
     exp : {0, 1, JWT_REFRESH_TOKEN_EXPIRES}, key : Keys]

(* get_token_from_header: 401 unless the header starts with Bearer.        *)
get_token_from_header(header) ==
    IF header # "Bearer" THEN "HTTP_401_UNAUTHORIZED" ELSE "ok"

(* decode_jwt_token: jwt.decode verifies the signature and exp; JWTError   *)
(* becomes 401.                                                            *)
decode_jwt_token(token) ==
    IF token.key # SECRET_KEY \/ token.exp < now
    THEN "HTTP_401_UNAUTHORIZED" ELSE "ok"

(* The outcome of get_current_user(request, db) for a header and a token.  *)
CurrentUser(header, token) ==
    IF get_token_from_header(header) # "ok"
    THEN get_token_from_header(header)
    ELSE IF decode_jwt_token(token) # "ok" THEN decode_jwt_token(token)
    ELSE IF token.sub = NoneStr THEN "HTTP_401_UNAUTHORIZED"
    ELSE IF IntOfSub(token.sub) = NoneInt THEN "HTTP_401_UNAUTHORIZED"
    ELSE IF ~\E r \in users : r.user_id = IntOfSub(token.sub)
    THEN "HTTP_403_FORBIDDEN"
    ELSE LET r == CHOOSE x \in users : x.user_id = IntOfSub(token.sub)
         IN  IF FromOrm("User", UserSchemaRequired, DOMAIN r) # "ok"
             THEN FromOrm("User", UserSchemaRequired, DOMAIN r)
             ELSE IF "is_active" \notin ({"username", "email", "full_name", "phone", "status",
                                          "profile_image_path", "role", "user_id", "created_at", "updated_at",
                                          "last_login"})
             THEN "AttributeError"
             ELSE IF ~r.is_active THEN "HTTP_403_FORBIDDEN"
             ELSE "ok"

CurrentUserCall(p, op, header, token) ==
    [BlankCall EXCEPT
       !.op = op, !.w = p, !.header = header, !.token = token, !.at = now,
       !.actor = IF CurrentUser(header, token) = "ok"
                 THEN IntOfSub(token.sub) ELSE NoneInt]

get_current_user(p) ==
    /\ CanCall(p)
    /\ \E header \in Headers, token \in Tokens :
         Complete(p, CurrentUserCall(p, "get_current_user", header, token),
                  CurrentUser(header, token))
    /\ UNCHANGED <<tables, now>>

(* AuthService.logout(user, background_tasks): the body is pass.           *)
AuthService_logout(p) ==
    /\ CanCall(p)
    /\ \E u \in 1..3 :
         Complete(p, [BlankCall EXCEPT
                        !.op = "AuthService.logout", !.w = p, !.actor = u,
                        !.at = now],
                  "ok")
    /\ UNCHANGED <<tables, now>>

(* POST /logout: the current user from get_current_user, then             *)
(* AuthService.logout, then None with status 204.                          *)
logout(p) ==
    /\ CanCall(p)
    /\ \E header \in Headers, token \in Tokens :
         Complete(p, CurrentUserCall(p, "logout", header, token),
                  CurrentUser(header, token))
    /\ UNCHANGED <<tables, now>>

(* ------------------------------ AuthService ---------------------------- *)
(* Names the module app.schemas.auth defines.                              *)
AuthSchemaNames ==
    {"AuthLoginRequest", "AuthTokenResponse", "AuthRefreshRequest",
     "AuthRefreshResponse", "AuthPasswordChangeRequest",
     "AuthPasswordResetRequest", "AuthPasswordResetConfirmRequest",
     "AdminPasswordResetRequest"}

(* from module import name                                                 *)
ImportName(names, name) ==
    IF name \in names THEN "ok" ELSE "ImportError"

(* The three HTTPExceptions of login.                                      *)
UnknownUserResponse ==
    [status_code |-> 401, detail |-> "Incorrect username or password",
     headers |-> {"WWW-Authenticate: Bearer"}]

WrongPasswordResponse ==
    [status_code |-> 401, detail |-> "Incorrect username or password",
     headers |-> {"WWW-Authenticate: Bearer"}]

InactiveResponse ==
    [status_code |-> 403, detail |-> "User account is inactive",
     headers |-> {}]

UsersNamed(username) == {r \in users : r.username = username}

LoginDecision_ActiveFirst(username, password) ==
    IF UsersNamed(username) = {} THEN UnknownUserResponse
    ELSE LET user == CHOOSE r \in UsersNamed(username) : TRUE
         IN  IF ~user.is_active THEN InactiveResponse
             ELSE IF ~verify_password(password, user.password_hash)
             THEN WrongPasswordResponse
             ELSE NoResponse

(* The checks of login in their order: the user by username, the password  *)
(* against the stored hash, is_active.  NoResponse when all three pass.    *)
LoginDecision(username, password) ==
    IF UsersNamed(username) = {} THEN UnknownUserResponse
    ELSE LET user == CHOOSE r \in UsersNamed(username) : TRUE
         IN  IF ~verify_password(password, user.password_hash)
             THEN WrongPasswordResponse
             ELSE IF ~user.is_active THEN InactiveResponse
             ELSE NoResponse

(* login(form_data, db) up to the commit of UserRepository.update: an      *)
(* HTTPException when a check fails, else the call stands before the       *)
(* commit that stores last_login.                                          *)
AuthService_login(p) ==
    /\ CanCall(p)
    /\ \E username \in {"u1", "u2", "u9"}, password \in {"pw1", "pw2"} :
         LET call == [BlankCall EXCEPT
                        !.op = "AuthService.login", !.w = p,
                        !.title = username, !.password = password,
                        !.at = now]
             resp == LoginDecision(username, password)
         IN  IF resp # NoResponse
             THEN Complete(p, [call EXCEPT !.resp = resp], (CASE resp.status_code = 401 -> "HTTP_401_UNAUTHORIZED"
                                                              [] resp.status_code = 403 -> "HTTP_403_FORBIDDEN"
                                                              [] resp.status_code = 400 -> "HTTP_400_BAD_REQUEST"))
             ELSE Suspend(p, [call EXCEPT
                                !.id = (CHOOSE r \in UsersNamed(username)
                                          : TRUE).user_id])
    /\ UNCHANGED <<tables, now>>

RegisterResponse(detail) ==
    [status_code |-> 400, detail |-> detail, headers |-> {}]

(* register(user_data, db) up to the commit of UserRepository.create: the  *)
(* two imports, the checks of username and email, the split of full_name   *)
(* and the hash of the password.                                           *)
AuthService_register(p) ==
    /\ CanCall(p)
    /\ \E username \in {"u1", "u3"}, email \in {"e2", "e3"},
          fn \in {<<"J", " ", "D">>, NoneSeq}, password \in {"pw2"},
          salt \in {1, 2} :
         LET call == [BlankCall EXCEPT
                        !.op = "AuthService.register", !.w = p,
                        !.title = username, !.file_path = email,
                        !.name = fn, !.password = password, !.salt = salt,
                        !.at = now]
         IN  IF ImportName(AuthSchemaNames, "UserInfo") # "ok"
             THEN Complete(p, call, ImportName(AuthSchemaNames, "UserInfo"))
             ELSE IF UsersNamed(username) # {}
             THEN Complete(p,
                    [call EXCEPT
                       !.resp = RegisterResponse("Username already registered")],
                    "HTTP_400_BAD_REQUEST")
             ELSE IF \E r \in users : r.email = email
             THEN Complete(p,
                    [call EXCEPT
                       !.resp = RegisterResponse("Email already registered")],
                    "HTTP_400_BAD_REQUEST")
             ELSE IF fn = NoneSeq THEN Complete(p, call, "AttributeError")
             ELSE Suspend(p, call)
    /\ UNCHANGED <<tables, now>>

(* ----------------------------- core/security ------------------------- *)
ALLOWED_EXTENSIONS ==
    {".pdf", ".doc", ".docx", ".ppt", ".pptx", ".xls", ".xlsx", ".txt",
     ".csv", ".jpg", ".jpeg", ".png", ".gif", ".zip"}

MAX_FILENAME_LENGTH == 128

MAX_UPLOAD_SIZE == 10485760

(* str.lower() on the extensions in use.                                   *)
LowerExt(ext) == IF ext = ".PDF" THEN ".pdf" ELSE ext

(* The try block of the fileno branch: tell and seek raise on a stream     *)
(* that cannot seek, and the size check raises HTTPException 413.          *)
SizeCheckInTry(file, max_size) ==
    IF ~file.seekable THEN "OSError"
    ELSE IF file.size > max_size THEN "HTTP_413_REQUEST_ENTITY_TOO_LARGE"
    ELSE "ok"

(* except Exception: pass.  HTTPException is an Exception.                 *)
ExceptExceptionPass(raised) == "ok"

(* validate_upload_file(file, max_size): the outcome of the call.          *)
ValidateUploadFile(file, max_size) ==
    IF file.len = 0 \/ file.len > MAX_FILENAME_LENGTH
    THEN "HTTP_400_BAD_REQUEST"
    ELSE IF LowerExt(file.ext) \notin ALLOWED_EXTENSIONS
    THEN "HTTP_400_BAD_REQUEST"
    ELSE IF file.stream = "fileno"
    THEN IF SizeCheckInTry(file, max_size) # "ok"
         THEN ExceptExceptionPass(SizeCheckInTry(file, max_size))
         ELSE "ok"
    ELSE IF file.stream = "getbuffer"
    THEN IF file.size > max_size THEN "HTTP_413_REQUEST_ENTITY_TOO_LARGE"
         ELSE "ok"
    ELSE "ok"

(* validate_upload_file applied to the files tried. A stream is of kind    *)
(* fileno when it has the attribute fileno (a spooled or real file), of    *)
(* kind getbuffer when it has getbuffer and no fileno, else of kind other. *)
validate_upload_file(p) ==
    /\ CanCall(p)
    /\ \E file \in ({f \in [len : {0, 5, MAX_FILENAME_LENGTH, MAX_FILENAME_LENGTH + 1},
                            ext : {"", ".pdf", ".PDF", ".exe"},
                            stream : {"fileno", "getbuffer", "other"},
                            seekable : BOOLEAN,
                            size : {0, MAX_UPLOAD_SIZE, MAX_UPLOAD_SIZE + 1}] :
                       f.len = 0 => f.ext = ""}) :
         Complete(p, [BlankCall EXCEPT
                        !.op = "validate_upload_file", !.w = p,
                        !.file = file, !.score = MAX_UPLOAD_SIZE],
                  ValidateUploadFile(file, MAX_UPLOAD_SIZE))
    /\ UNCHANGED <<tables, now>>

(* ------------------------------ db.commit ------------------------------ *)
SubmissionNullableInts == {}

SubmissionNullableStrs == {"file_path", "feedback", "grade"}

GradeNullableInts == {"assignment_id", "quiz_id", "course_offering_id"}

GradeNullableStrs == {"remarks"}

(* Attributes the returned object holds: the stored columns that have a    *)
(* value, and the keys that setattr put on the instance without a column.  *)
ObjectAttrs(row, ints, strs, attrs, keys) ==
    ({c \in DOMAIN row \cap ints : row[c] # NoneInt}
     \cup {c \in DOMAIN row \cap strs : row[c] # NoneStr}
     \cup (DOMAIN row \ (ints \cup strs))) \cup (keys \ attrs)

(* The INSERT of the new submission (the primary key is the only unique    *)
(* constraint of the table), then refresh and from_orm.                    *)
CommitSubmissionCreate(p, call) ==
    LET row == ([submission_id |-> NextId(submissions, "submission_id"),
                 assignment_id |-> call.assignment_id, student_id |-> call.student_id,
                 file_path |-> call.file_path, feedback |-> call.feedback,
                 grade |-> call.grade, is_final |-> TRUE]) IN
    /\ IF UniqueViolation(submissions, row, {{"submission_id"}})
       THEN /\ Complete(p, call, "IntegrityError")
            /\ UNCHANGED submissions
       ELSE /\ submissions' = submissions \cup {row}
            /\ Complete(p, call,
                 FromOrm("AssignmentSubmission",
                         AssignmentSubmissionSchemaRequired,
                         ObjectAttrs(row, SubmissionNullableInts,
                                     SubmissionNullableStrs,
                                     AssignmentSubmissionAttrs, {})))
    /\ UNCHANGED <<assignments, quizzes, enrollments, staff, attempts, grades,
                   quiztables, users>>

(* ObjectGone: the UPDATE matches no row (StaleDataError), or the refresh  *)
(* finds none (InvalidRequestError).                                      *)
CommitSubmissionUpdate(p, call) ==
    /\ IF \E r \in submissions : r.submission_id = call.id
       THEN LET r == CHOOSE x \in submissions : x.submission_id = call.id
                row == ([r EXCEPT
                           !.grade = IF "grade" \in call.keys THEN call.grade ELSE @,
                           !.feedback = IF "feedback" \in call.keys THEN call.feedback ELSE @])
            IN  /\ submissions' = (submissions \ {r}) \cup {row}
                /\ Complete(p, call,
                     FromOrm("AssignmentSubmission",
                         AssignmentSubmissionSchemaRequired,
                             ObjectAttrs(row, SubmissionNullableInts,
                                         SubmissionNullableStrs,
                                         AssignmentSubmissionAttrs,
                                         call.keys)))
       ELSE /\ Complete(p, call, "ObjectGone")
            /\ UNCHANGED submissions
    /\ UNCHANGED <<assignments, quizzes, enrollments, staff, attempts, grades,
                   quiztables, users>>

(* The INSERT of the new attempt (the primary key is the only unique       *)
(* constraint of the table), then refresh and from_orm.                    *)
CommitAttemptCreate(p, call) ==
    LET row == ([attempt_id |-> NextId(attempts, "attempt_id"),
                 quiz_id |-> call.quiz_id, student_id |-> call.student_id,
                 started_at |-> now, submitted_at |-> Null, total_score |-> Null,
                 is_submitted |-> FALSE, is_graded |-> FALSE]) IN
    /\ IF UniqueViolation(attempts, row, {{"attempt_id"}})
       THEN /\ Complete(p, call, "IntegrityError")
            /\ UNCHANGED attempts
       ELSE /\ attempts' = attempts \cup {row}
            /\ Complete(p, call,
                 FromOrm("QuizAttempt", QuizAttemptSchemaRequired,
                         DOMAIN row))
    /\ UNCHANGED <<assignments, quizzes, enrollments, staff, submissions,
                   grades, quiztables, users>>

(* The INSERT of the new grade (the primary key is the only unique         *)
(* constraint of the table), then refresh and from_orm.                    *)
CommitGradeCreate(p, call) ==
    LET row == ([grade_id |-> NextId(grades, "grade_id"),
                 student_id |-> call.student_id, assignment_id |-> call.assignment_id,
                 quiz_id |-> call.quiz_id, course_offering_id |-> call.course_offering_id,
                 grade_value |-> call.value, remarks |-> call.remarks]) IN
    /\ IF UniqueViolation(grades, row, {{"grade_id"}})
       THEN /\ Complete(p, call, "IntegrityError")
            /\ UNCHANGED grades
       ELSE /\ grades' = grades \cup {row}
            /\ Complete(p, call,
                 FromOrm("Grade", GradeSchemaRequired,
                         ObjectAttrs(row, GradeNullableInts,
                                     GradeNullableStrs, GradeAttrs, {})))
    /\ UNCHANGED <<assignments, quizzes, enrollments, staff, submissions,
                   attempts, quiztables, users>>

(* The commit of update: of the keys of GradeUpdate, student_id and        *)
(* remarks are columns of grades, value is not.                            *)
CommitGradeUpdate(p, call) ==
    /\ IF \E r \in grades : r.grade_id = call.id
       THEN LET r == CHOOSE x \in grades : x.grade_id = call.id
                row == ([r EXCEPT
                           !.student_id = IF "student_id" \in call.keys
                                          THEN call.student_id ELSE @,
                           !.remarks = IF "remarks" \in call.keys THEN call.remarks ELSE @])
            IN  /\ grades' = (grades \ {r}) \cup {row}
                /\ Complete(p, call,
                     FromOrm("Grade", GradeSchemaRequired,
                             ObjectAttrs(row, GradeNullableInts,
                                         GradeNullableStrs, GradeAttrs,
                                         call.keys)))
       ELSE /\ Complete(p, call, "ObjectGone")
            /\ UNCHANGED grades
    /\ UNCHANGED <<assignments, quizzes, enrollments, staff, submissions,
                   attempts, quiztables, users>>

(* A DELETE that matches no row only warns: the call still returns True.   *)
CommitGradeDelete(p, call) ==
    /\ grades' = {r \in grades : r.grade_id # call.id}
    /\ Complete(p, call, "True")
    /\ UNCHANGED <<assignments, quizzes, enrollments, staff, submissions,
                   attempts, quiztables, users>>

(* The commit of update: of the keys of QuizAttemptUpdate only quiz_id and *)
(* student_id are columns; the submitting patch sets neither.              *)
CommitAttemptUpdate(p, call) ==
    /\ IF \E r \in attempts : r.attempt_id = call.id
       THEN LET r == CHOOSE x \in attempts : x.attempt_id = call.id
            IN  /\ attempts' = (attempts \ {r}) \cup {([r EXCEPT
                                                          !.quiz_id = IF "quiz_id" \in call.keys THEN call.quiz_id ELSE @,
                                                          !.student_id = IF "student_id" \in call.keys
                                                                         THEN call.student_id ELSE @])}
                /\ Complete(p, call,
                     FromOrm("QuizAttempt", QuizAttemptSchemaRequired,
                             DOMAIN r \cup call.keys))
       ELSE /\ Complete(p, call, "ObjectGone")
            /\ UNCHANGED attempts
    /\ UNCHANGED <<assignments, quizzes, enrollments, staff, submissions,
                   grades, quiztables, users>>

(* attempt_id is NOT NULL and the constructor is given none.               *)
CommitAnswerCreate(p, call) ==
    /\ Complete(p, call, "IntegrityError")
    /\ UNCHANGED tables

(* The commit of update: grade is not a column of quiz_answers,            *)
(* selected_option_id is.                                                  *)
CommitAnswerUpdate(p, call) ==
    /\ IF \E r \in answers : r.answer_id = call.id
       THEN LET r == CHOOSE x \in answers : x.answer_id = call.id
            IN  /\ answers' = (answers \ {r}) \cup {([r EXCEPT
                                                        !.selected_option_id = IF "selected_option_id" \in call.keys
                                                                               THEN call.option_id ELSE @])}
                /\ Complete(p, call,
                     FromOrm("QuizAnswer", {"quiz_id", "question_id", "student_id", "quiz_answer_id"},
                             {"question_id", "student_id"} \cup call.keys))
       ELSE /\ Complete(p, call, "ObjectGone")
            /\ UNCHANGED answers
    /\ UNCHANGED <<assignments, quizzes, enrollments, staff, submissions,
                   attempts, grades, questions, options, users>>

(* The commit of update: status is not a column of quizzes,                *)
(* duration_minutes is.                                                    *)
CommitQuizUpdate(p, call) ==
    /\ IF \E r \in quizzes : r.quiz_id = call.id
       THEN LET r == CHOOSE x \in quizzes : x.quiz_id = call.id
            IN  /\ quizzes' = (quizzes \ {r}) \cup {([r EXCEPT
                                                        !.duration_minutes = IF "duration_minutes" \in call.keys
                                                                             THEN call.score ELSE @])}
                /\ Complete(p, call,
                     FromOrm("Quiz", QuizSchemaRequired,
                             DOMAIN r \cup call.keys))
       ELSE /\ Complete(p, call, "ObjectGone")
            /\ UNCHANGED quizzes
    /\ UNCHANGED <<assignments, enrollments, staff, submissions, attempts,
                   grades, quiztables, users>>

(* unique=True on users.username and users.email                           *)
UserUnique(rows) ==
    \A r1, r2 \in rows :
       (r1.username = r2.username \/ r1.email = r2.email)
          => r1.user_id = r2.user_id

(* The INSERT of the new user: a NOT NULL column that was given no value   *)
(* and has no default fails the statement.                                 *)
CommitUserCreate(p, call) ==
    /\ LET r == [StoredUser(NextId(users, "user_id"), call.title,
                            call.file_path, IsActiveOf(call.status))
                   EXCEPT !.password_hash = [salt |-> 0, hash_val |-> <<>>],
                          !.first_name = <<>>, !.last_name = <<>>]
       IN  IF ~({"username", "email", "password_hash", "first_name", "last_name"} \subseteq call.keys)
              \/ ~UserUnique(users \cup {r})
           THEN /\ Complete(p, call, "IntegrityError")
                /\ UNCHANGED users
           ELSE /\ users' = users \cup {r}
                /\ LET out == FromOrm("User", UserSchemaRequired, DOMAIN r)
                   IN  Complete(p,
                         [call EXCEPT
                            !.id = r.user_id, !.ret = {r.user_id},
                            !.ret_name = SchemaFullName(r),
                            !.ret_status = IF out = "ok"
                                           THEN StatusOf(r.is_active)
                                           ELSE NoneStr],
                         out)
    /\ UNCHANGED <<assignments, quizzes, enrollments, staff, submissions,
                   attempts, grades, quiztables>>

(* The commit of update: the keys that passed the filter on model_fields   *)
(* are written to their columns.                                           *)
CommitUserUpdate(p, call) ==
    /\ IF ~\E r \in users : r.user_id = call.id
       THEN /\ Complete(p, call, "ObjectGone")
            /\ UNCHANGED users
       ELSE LET r == CHOOSE x \in users : x.user_id = call.id
                new == ([r EXCEPT
                           !.is_active = IF "is_active" \in call.keys
                                         THEN IsActiveOf(call.status) ELSE @,
                           !.first_name = IF "first_name" \in call.keys THEN call.name ELSE @,
                           !.last_name = IF "last_name" \in call.keys THEN call.name ELSE @,
                           !.username = IF "username" \in call.keys THEN call.title ELSE @])
            IN  IF ~UserUnique((users \ {r}) \cup {new})
                THEN /\ Complete(p, call, "IntegrityError")
                     /\ UNCHANGED users
                ELSE /\ users' = (users \ {r}) \cup {new}
                     /\ LET out == FromOrm("User", UserSchemaRequired,
                                           DOMAIN new)
                        IN  Complete(p,
                              [call EXCEPT
                                 !.ret = {new.user_id},
                                 !.ret_name = SchemaFullName(new),
                                 !.ret_status = IF out = "ok"
                                                THEN StatusOf(new.is_active)
                                                ELSE NoneStr],
                              out)
    /\ UNCHANGED <<assignments, quizzes, enrollments, staff, submissions,
                   attempts, grades, quiztables>>

(* db.delete(user_obj) and the commit.  The relationships enrollments,     *)
(* grades, assignment_submissions and professor_roles have cascade all,    *)
(* delete-orphan; quiz_attempts and quiz_answers hang on the user by       *)
(* ON DELETE CASCADE only, which the database applies when it enforces     *)
(* foreign keys (fk).                                                      *)
CommitUserDelete(p, call) ==
    /\ users' = {r \in users : r.user_id # call.id}
    /\ enrollments' = {r \in enrollments : r.student_id # call.id}
    /\ grades' = {r \in grades : r.student_id # call.id}
    /\ submissions' = {r \in submissions : r.student_id # call.id}
    /\ staff' = {r \in staff : r.user_id # call.id}
    /\ \E fk \in BOOLEAN :
         /\ attempts' = IF fk
                        THEN {r \in attempts : r.student_id # call.id}
                        ELSE attempts
         /\ answers' = IF fk
                       THEN {r \in answers :
                               /\ r.student_id # call.id
                               /\ \E a \in attempts' :
                                    a.attempt_id = r.attempt_id}
                       ELSE answers
    /\ Complete(p, call, "True")
    /\ UNCHANGED <<assignments, quizzes, questions, options>>

(* The rest of login: UserRepository.update selects the user again and,    *)
(* when it is still there, stores last_login and commits; then the two     *)
(* tokens, the import of UserInfo and the AuthTokenResponse.               *)
CommitLogin(p, call) ==
    /\ users' = {IF r.user_id = call.id
                 THEN [r EXCEPT !.last_login = call.at] ELSE r : r \in users}
    /\ IF ImportName(AuthSchemaNames, "UserInfo") # "ok"
       THEN Complete(p, call, ImportName(AuthSchemaNames, "UserInfo"))
       ELSE Complete(p,
              [call EXCEPT
                 !.access_token =
                    create_access_token(StrOfId[call.id], NoneStr,
                                        JWT_ACCESS_TOKEN_EXPIRES),
                 !.refresh_token =
                    create_access_token(StrOfId[call.id], "refresh",
                                        JWT_REFRESH_TOKEN_EXPIRES)],
              "ok")
    /\ UNCHANGED <<assignments, quizzes, enrollments, staff, submissions,
                   attempts, grades, quiztables>>

(* The rest of register: the INSERT of UserRepository.create, which the    *)
(* unique constraints of username and email can refuse, then the tokens    *)
(* and the AuthTokenResponse.                                              *)
CommitRegister(p, call) ==
    /\ LET r == (LET name_parts == SplitOnce(Strip(call.name))
                 IN  [user_id |-> NextId(users, "user_id"), username |-> call.title,
                      email |-> call.file_path,
                      password_hash |-> hash_password(call.password, call.salt),
                      first_name |-> IF name_parts # <<>> THEN name_parts[1]
                                     ELSE Strip(call.name),
                      last_name |-> IF Len(name_parts) > 1 THEN name_parts[2] ELSE <<>>,
                      is_active |-> TRUE, last_login |-> Null])
       IN  IF ~UserUnique(users \cup {r})
           THEN /\ Complete(p, call, "IntegrityError")
                /\ UNCHANGED users
           ELSE /\ users' = users \cup {r}
                /\ Complete(p,
                     [call EXCEPT
                        !.id = r.user_id,
                        !.access_token =
                           create_access_token(StrOfId[r.user_id], NoneStr,
                                               JWT_ACCESS_TOKEN_EXPIRES),
                        !.refresh_token =
                           create_access_token(StrOfId[r.user_id], "refresh",
                                               JWT_REFRESH_TOKEN_EXPIRES)],
                     "ok")
    /\ UNCHANGED <<assignments, quizzes, enrollments, staff, submissions,
                   attempts, grades, quiztables>>

(* db.commit(), db.refresh(obj) and the return of the suspended call.      *)
Commit(p) ==
    /\ ~Idle(p)
    /\ LET call == cur[p] IN
       CASE call.op = "AssignmentSubmissionService.create" ->
                CommitSubmissionCreate(p, call)
         [] call.op = "AssignmentSubmissionService.update" ->
                CommitSubmissionUpdate(p, call)
         [] call.op = "QuizAttemptService.create" ->
                CommitAttemptCreate(p, call)
         [] call.op = "GradeService.create" -> CommitGradeCreate(p, call)
         [] call.op = "GradeService.update" -> CommitGradeUpdate(p, call)
         [] call.op = "GradeService.delete" -> CommitGradeDelete(p, call)
         [] call.op = "QuizAttemptService.update" ->
                CommitAttemptUpdate(p, call)
         [] call.op = "QuizAnswerService.create" ->
                CommitAnswerCreate(p, call)
         [] call.op = "QuizAnswerService.update" ->
                CommitAnswerUpdate(p, call)
         [] call.op = "QuizService.update" -> CommitQuizUpdate(p, call)
         [] call.op = "AssignmentService.update" ->
                CommitAssignmentUpdate(p, call)
         [] call.op = "AssignmentService.delete" ->
                CommitAssignmentDelete(p, call)
         [] call.op = "AssignmentSubmissionService.delete" ->
                CommitSubmissionDelete(p, call)
         [] call.op = "QuizAttemptService.delete" ->
                CommitAttemptDelete(p, call)
         [] call.op = "QuizService.delete" -> CommitQuizDelete(p, call)
         [] call.op = "UserService.create" -> CommitUserCreate(p, call)
         [] call.op = "UserService.update" -> CommitUserUpdate(p, call)
         [] call.op = "UserService.delete" -> CommitUserDelete(p, call)
         [] call.op = "AuthService.login" -> CommitLogin(p, call)
         [] call.op = "AuthService.register" -> CommitRegister(p, call)
    /\ UNCHANGED now

(* ------------------------------- routers ------------------------------- *)
(* POST /assignment-submissions/: the handler calls                        *)
(* AssignmentSubmissionService.submit_assignment for the current user.     *)
submit_assignment(p) ==
    /\ CanCall(p)
    /\ \E a \in {r.assignment_id : r \in assignments}, u \in Students,
          f \in FilePaths :
         Complete(p, [BlankCall EXCEPT
                        !.op = "submit_assignment", !.w = p,
                        !.assignment_id = a, !.student_id = u, !.actor = u,
                        !.file_path = f],
                  ServiceAttribute(AssignmentSubmissionServiceMethods,
                                   "submit_assignment"))
    /\ UNCHANGED <<tables, now>>

(* POST /assignment-submissions/{submission_id}/feedback: the handler      *)
(* calls AssignmentSubmissionService.add_feedback for the current user.    *)
add_feedback(p) ==
    /\ CanCall(p)
    /\ \E i \in 1..2, u \in StaffUsers, g \in GradeValues,
          fb \in FeedbackTexts :
         Complete(p, [BlankCall EXCEPT
                        !.op = "add_feedback", !.w = p, !.id = i,
                        !.actor = u, !.grade = g, !.feedback = fb,
                        !.keys = {"grade", "feedback"}],
                  ServiceAttribute(AssignmentSubmissionServiceMethods,
                                   "add_feedback"))
    /\ UNCHANGED <<tables, now>>

(* POST /quiz-attempts/: the handler calls QuizAttemptService.start_attempt *)
(* for the current user.                                                   *)
start_quiz_attempt(p) ==
    /\ CanCall(p)
    /\ \E q \in {r.quiz_id : r \in quizzes}, u \in Students :
         Complete(p, [BlankCall EXCEPT
                        !.op = "start_quiz_attempt", !.w = p,
                        !.quiz_id = q, !.student_id = u, !.actor = u],
                  ServiceAttribute(QuizAttemptServiceMethods,
                                   "start_attempt"))
    /\ UNCHANGED <<tables, now>>

(* POST /grades/: the handler calls GradeService.enter_grade for the       *)
(* current user.                                                           *)
enter_grade(p) ==
    /\ CanCall(p)
    /\ \E s \in Students, a \in {r.assignment_id : r \in assignments},
          u \in StaffUsers, v \in GradeValues :
         Complete(p, [BlankCall EXCEPT
                        !.op = "enter_grade", !.w = p, !.student_id = s,
                        !.assignment_id = a,
                        !.course_offering_id = OfferingOfAssignment(a),
                        !.actor = u, !.value = v],
                  ServiceAttribute(({"get_by_id", "get_by_enrollment_id", "get_by_assignment_id", "get_all",
                                     "create", "update", "delete"}), "enter_grade"))
    /\ UNCHANGED <<tables, now>>

(* ------------------------------- clock --------------------------------- *)
Tick ==
    /\ now < MaxTime
    /\ now' = now + 1
    /\ UNCHANGED <<tables, cur, last, ncalls>>

Next ==
    \/ \E p \in Workers : AssignmentSubmissionService_create(p)
    \/ \E p \in Workers : AssignmentSubmissionService_update(p)
    \/ \E p \in Workers : QuizAttemptService_create(p)
    \/ \E p \in Workers : GradeService_create(p)
    \/ \E p \in Workers : GradeService_update(p)
    \/ \E p \in Workers : GradeService_delete(p)
    \/ \E p \in Workers : Commit(p)
    \/ \E p \in Workers : submit_assignment(p)
    \/ \E p \in Workers : add_feedback(p)
    \/ \E p \in Workers : start_quiz_attempt(p)
    \/ \E p \in Workers : enter_grade(p)
    \/ Tick

Spec == Init /\ [][Next]_vars

(* The quiz workflow: attempts, answers and the quiz itself.               *)
QuizNext ==
    \/ \E p \in Workers : QuizAttemptService_create(p)
    \/ \E p \in Workers : QuizAttemptService_update(p)
    \/ \E p \in Workers : QuizAnswerService_create(p)
    \/ \E p \in Workers : QuizAnswerService_update(p)
    \/ \E p \in Workers : QuizService_update(p)
    \/ \E p \in Workers : Commit(p)
    \/ \E p \in Workers : start_quiz_attempt(p)
    \/ \E p \in Workers : update_quiz_attempt(p)
    \/ \E p \in Workers : submit_quiz_answer(p)
    \/ \E p \in Workers : QuizService_get_by_id(p)
    \/ \E p \in Workers : QuizService_get_by_course_offering_id(p)
    \/ \E p \in Workers : QuizService_get_all(p)
    \/ \E p \in Workers : get_quiz(p)
    \/ \E p \in Workers : list_quizzes_for_section_group(p)
    \/ Tick

QuizSpec == QuizInit /\ [][QuizNext]_vars

(* The assignment lifecycle.                                               *)
AssignmentNext ==
    \/ \E p \in Workers : AssignmentService_update(p)
    \/ \E p \in Workers : AssignmentService_delete(p)
    \/ \E p \in Workers : Commit(p)
    \/ \E p \in Workers : update_assignment(p)
    \/ \E p \in Workers : delete_assignment(p)
    \/ Tick

AssignmentSpec == AssignmentInit /\ [][AssignmentNext]_vars

(* The role dependency, applied to users and role lists.                   *)
AuthNext == \E p \in Workers : require_role(p)

AuthSpec == AuthInit /\ [][AuthNext]_vars

(* The user service on a store of two users.                               *)
UserNext ==
    \/ \E p \in Workers : UserService_get_by_id(p)
    \/ \E p \in Workers : UserService_create(p)
    \/ \E p \in Workers : UserService_update(p)
    \/ \E p \in Workers : Commit(p)

UserSpec == UserInit /\ [][UserNext]_vars

(* Requests that carry a token, while users are changed and deleted.       *)
SessionNext ==
    \/ \E p \in Workers : get_current_user(p)
    \/ \E p \in Workers : logout(p)
    \/ \E p \in Workers : AuthService_logout(p)
    \/ \E p \in Workers : UserService_update(p)
    \/ \E p \in Workers : UserService_delete(p)
    \/ \E p \in Workers : Commit(p)
    \/ Tick

SessionSpec == UserInit /\ [][SessionNext]_vars

(* Logins and registrations, while users are deactivated and deleted.      *)
LoginNext ==
    \/ \E p \in Workers : AuthService_login(p)
    \/ \E p \in Workers : AuthService_register(p)
    \/ \E p \in Workers : UserService_update(p)
    \/ \E p \in Workers : UserService_delete(p)
    \/ \E p \in Workers : Commit(p)
    \/ Tick

LoginSpec == UserInit /\ [][LoginNext]_vars

(* The validation of uploads, applied to files.                            *)
UploadNext == \E p \in Workers : validate_upload_file(p)

UploadSpec == AuthInit /\ [][UploadNext]_vars

(* update and delete of the submission, attempt, grade and assignment    *)
(* services.                                                               *)
CrudNext ==
    \/ \E p \in Workers : AssignmentSubmissionService_update(p)
    \/ \E p \in Workers : AssignmentSubmissionService_delete(p)
    \/ \E p \in Workers : QuizAttemptService_update(p)
    \/ \E p \in Workers : QuizAttemptService_delete(p)
    \/ \E p \in Workers : GradeService_update(p)
    \/ \E p \in Workers : GradeService_delete(p)
    \/ \E p \in Workers : AssignmentService_update(p)
    \/ \E p \in Workers : AssignmentService_delete(p)
    \/ \E p \in Workers : Commit(p)

CrudSpec == CrudInit /\ [][CrudNext]_vars

(* create and delete of parents and children.                              *)
CascadeNext ==
    \/ \E p \in Workers : AssignmentSubmissionService_create(p)
    \/ \E p \in Workers : QuizAttemptService_create(p)
    \/ \E p \in Workers : QuizAnswerService_create(p)
    \/ \E p \in Workers : GradeService_create(p)
    \/ \E p \in Workers : AssignmentService_delete(p)
    \/ \E p \in Workers : QuizService_delete(p)
    \/ \E p \in Workers : AssignmentSubmissionService_delete(p)
    \/ \E p \in Workers : QuizAttemptService_delete(p)
    \/ \E p \in Workers : GradeService_delete(p)
    \/ \E p \in Workers : Commit(p)

CascadeSpec == CrudInit /\ [][CascadeNext]_vars

TypeOK ==
    /\ now \in 0..MaxTime
    /\ ncalls \in 0..MaxCalls
    /\ Started <= MaxCalls
    /\ \A r \in grades : r.student_id \in Students

(* ------------------------- vocabulary of the claims -------------------- *)
SubmitOps == {"AssignmentSubmissionService.create", "submit_assignment"}

StartOps == {"QuizAttemptService.create", "start_quiz_attempt"}

FeedbackOps == {"AssignmentSubmissionService.update", "add_feedback"}

GradingOps == {"GradeService.create", "enter_grade"}

(* This step completes a call of one of the operations in ops.             *)
Completes(ops) == ncalls' = ncalls + 1 /\ last'.op \in ops

SamePair(c, d) ==
    /\ c.assignment_id = d.assignment_id
    /\ c.quiz_id = d.quiz_id
    /\ c.student_id = d.student_id

EnrolledForAssignment(c) ==
    ActivelyEnrolled(c.student_id, OfferingOfAssignment(c.assignment_id))

EnrolledForQuiz(c) ==
    ActivelyEnrolled(c.student_id, OfferingOfQuiz(c.quiz_id))

BeforeDeadline(c) == now <= DueDateOf(c.assignment_id)

SubmissionById(i) == {r \in submissions : r.submission_id = i}

(* The caller of a feedback call may grade the submission: the router      *)
(* passes the current user, the service method is called without one.      *)
StaffForSubmission(c) ==
    \E r \in SubmissionById(c.id) :
        \/ c.op = "AssignmentSubmissionService.update"
        \/ StaffOf(c.actor, OfferingOfAssignment(r.assignment_id))

(* Grade rows of one graded item: an assignment or a quiz.                 *)
GradedItems(grs) ==
    {<<r.student_id, r.assignment_id, r.quiz_id>> : r \in
        {x \in grs : x.assignment_id # NoneInt \/ x.quiz_id # NoneInt}}

(* C1: at every time each (assignment, student) pair has at most one       *)
(* final submission row, and when a student entitled to submit submits     *)
(* twice in succession to the same assignment, exactly one final row for   *)
(* the pair is left and it carries the payload of the later submit.        *)
C1_OneFinalSubmissionPerPair ==
    /\ [](\A r \in submissions :
            Cardinality(FinalRowsIn(submissions, r.assignment_id,
                                    r.student_id)) <= 1)
    /\ [][(/\ Completes(SubmitOps)
           /\ last.op \in SubmitOps
           /\ SamePair(last, last')
           /\ EnrolledForAssignment(last')
           /\ BeforeDeadline(last'))
          => LET F == FinalRowsIn(submissions', last'.assignment_id,
                                  last'.student_id)
             IN  /\ Cardinality(F) = 1
                 /\ \A r \in F : r.file_path = last'.file_path]_vars

(* C2: at every time each (quiz, student) pair has at most one attempt in  *)
(* progress, and a start issued while the student has an attempt in        *)
(* progress on the quiz fails with ConflictError and adds no attempt row.  *)
C2_OneAttemptInProgress ==
    /\ [](\A r \in attempts :
            Cardinality(InProgressIn(attempts, r.quiz_id, r.student_id)) <= 1)
    /\ [][(/\ Completes(StartOps)
           /\ InProgressIn(attempts, last'.quiz_id, last'.student_id) # {})
          => (last'.outcome = "ConflictError" /\ attempts' = attempts)]_vars

(* C3: when two workers submit for the same (assignment, student), the     *)
(* state after both calls is the state after the two submits in one of     *)
(* the two orders: one final row for the pair, holding the payload of one  *)
(* of the two calls, never two final rows.                                 *)
C3_ConcurrentSubmitsSerialize ==
    [][(/\ Completes(SubmitOps)
        /\ last.op \in SubmitOps
        /\ last.w # last'.w
        /\ SamePair(last, last')
        /\ EnrolledForAssignment(last')
        /\ BeforeDeadline(last'))
       => LET F == FinalRowsIn(submissions', last'.assignment_id,
                               last'.student_id)
          IN  /\ Cardinality(F) = 1
              /\ \A r \in F : r.file_path \in {last.file_path,
                                                last'.file_path}]_vars

(* C4: when two workers start an attempt for the same (quiz, student),     *)
(* each call is one atomic check-and-insert: it either finds no attempt    *)
(* in progress and inserts one, or finds one and is refused without a      *)
(* write, so that at most one of the two creates an attempt.               *)
C4_AtomicStartAttempt ==
    [][(/\ Completes(StartOps)
        /\ last.op \in StartOps
        /\ last.w # last'.w
        /\ SamePair(last, last')
        /\ EnrolledForQuiz(last'))
       => LET before == InProgressIn(attempts, last'.quiz_id,
                                     last'.student_id)
              after == InProgressIn(attempts', last'.quiz_id,
                                    last'.student_id)
          IN  /\ Cardinality(after) <= 1
              /\ \/ before = {} /\ Cardinality(after) = 1
                 \/ before # {} /\ attempts' = attempts
                               /\ last'.outcome = "ConflictError"]_vars

(* C5: at every time there is at most one grade row per (student, graded   *)
(* item), and a grading call for a student and item that already have a    *)
(* row leaves that one row, holding the value of the call.                 *)
C5_OneGradePerStudentItem ==
    /\ [](\A i \in GradedItems(grades) :
            Cardinality(GradeRowsIn(grades, i[1], i[2], i[3])) <= 1)
    /\ [][(/\ Completes(GradingOps)
           /\ GradeRowsIn(grades, last'.student_id, last'.assignment_id,
                          last'.quiz_id) # {})
          => LET G == GradeRowsIn(grades', last'.student_id,
                                  last'.assignment_id, last'.quiz_id)
             IN  /\ Cardinality(G) = 1
                 /\ \A r \in G : r.grade_value = last'.value
                 /\ {r.grade_id : r \in G}
                      = {r.grade_id : r \in GradeRowsIn(grades,
                            last'.student_id, last'.assignment_id,
                            last'.quiz_id)}]_vars

(* C6: a second addFeedback on the same submission with the same grade     *)
(* and feedback as the call before it changes nothing, and leaves one      *)
(* grade row for the submission's (student, assignment), holding the       *)
(* grade.                                                                  *)
C6_AddFeedbackIdempotent ==
    [][(/\ Completes(FeedbackOps)
        /\ last.op = last'.op
        /\ last.id = last'.id
        /\ last.actor = last'.actor
        /\ last.grade = last'.grade
        /\ last.feedback = last'.feedback
        /\ StaffForSubmission(last'))
       => /\ tables' = tables
          /\ \A r \in SubmissionById(last'.id) :
               LET G == GradeRowsIn(grades', r.student_id, r.assignment_id,
                                    NoneInt)
               IN  /\ Cardinality(G) = 1
                   /\ \A g \in G : g.grade_value = last'.grade]_vars

(* C7: a submit by an actively enrolled student is accepted when the time  *)
(* is at or before the due date, the due date itself included, and is      *)
(* rejected with DeadlineExceededError, without a change to the            *)
(* submission rows, when the time is later.                                *)
C7_DeadlineBoundary ==
    [][(Completes(SubmitOps) /\ EnrolledForAssignment(last'))
       => IF BeforeDeadline(last')
          THEN /\ last'.outcome = "ok"
               /\ \E r \in FinalRowsIn(submissions', last'.assignment_id,
                                       last'.student_id) :
                    r.file_path = last'.file_path
          ELSE /\ last'.outcome = "DeadlineExceededError"
               /\ submissions' = submissions]_vars

(* C8: a submit by a student without an active enrollment in the           *)
(* assignment's offering fails with AuthorizationError and leaves the      *)
(* submission rows as they were.                                           *)
C8_NotEnrolledRejected ==
    [][(Completes(SubmitOps) /\ ~EnrolledForAssignment(last'))
       => (last'.outcome = "AuthorizationError"
           /\ submissions' = submissions)]_vars

(* C9: addFeedback by a staff member who is not staff of the offering of   *)
(* the submission's assignment fails with AuthorizationError and leaves    *)
(* the submission's grade and feedback as they were.                       *)
C9_NonStaffFeedbackRejected ==
    [][(/\ Completes({"add_feedback"})
        /\ SubmissionById(last'.id) # {}
        /\ ~StaffForSubmission(last'))
       => (last'.outcome = "AuthorizationError"
           /\ submissions' = submissions)]_vars

(* C10: addFeedback by staff of the offering writes the grade and the      *)
(* feedback on the submission and, in the same step, leaves a grade row    *)
(* for (student, offering, assignment) with that value; at every time a    *)
(* submission that carries a grade has a grade row with the same value.    *)
C10_FeedbackWritesGradeRecord ==
    /\ [](\A r \in submissions :
            r.grade # NoneStr =>
              \E g \in GradeRowsIn(grades, r.student_id, r.assignment_id,
                                   NoneInt) : g.grade_value = r.grade)
    /\ [][(Completes(FeedbackOps) /\ StaffForSubmission(last'))
          => \A r \in SubmissionById(last'.id) :
               /\ \E x \in submissions' :
                    /\ x.submission_id = r.submission_id
                    /\ x.grade = last'.grade
                    /\ x.feedback = last'.feedback
               /\ \E g \in GradeRowsIn(grades', r.student_id,
                                       r.assignment_id, NoneInt) :
                    /\ g.grade_value = last'.grade
                    /\ g.course_offering_id
                         = OfferingOfAssignment(r.assignment_id)]_vars

(* --------------------- vocabulary of the quiz claims ------------------- *)
SubmitAttemptOps == {"QuizAttemptService.update", "update_quiz_attempt"}

RecordAnswerOps == {"QuizAnswerService.create", "submit_quiz_answer"}

StaffGradeOps == {"QuizAnswerService.update"}

AttemptById(atts, i) == {r \in atts : r.attempt_id = i}

AnswerById(ans, i) == {r \in ans : r.answer_id = i}

AnswersOf(ans, a) == {r \in ans : r.attempt_id = a}

AllChoice(q) ==
    \A x \in questions : x.quiz_id = q => x.question_type = "MCQ"

(* Questions of the attempt's quiz whose answer selects a correct option.  *)
CorrectlyAnswered(ans, a) ==
    {x \in questions :
        \E r \in AnswersOf(ans, a) :
            /\ r.question_id = x.question_id
            /\ \E o \in options : /\ o.option_id = r.selected_option_id
                                  /\ o.is_correct}

RECURSIVE SumPoints(_)
SumPoints(Q) ==
    IF Q = {} THEN 0
    ELSE LET x == CHOOSE y \in Q : TRUE
         IN  x.points + SumPoints(Q \ {x})

(* Sum of score_awarded, NULL counted as 0.                                *)
RECURSIVE SumScores(_)
SumScores(A) ==
    IF A = {} THEN 0
    ELSE LET r == CHOOSE y \in A : TRUE
         IN  (IF r.score_awarded = Null THEN 0 ELSE r.score_awarded)
             + SumScores(A \ {r})

(* C11: when submitAttempt completes on an attempt in progress of a quiz   *)
(* whose questions are all choice questions, the attempt is left graded,   *)
(* with total_score the sum of the points of the questions whose selected  *)
(* option is correct.                                                      *)
C11_ObjectiveQuizAutoGraded ==
    [][(/\ Completes(SubmitAttemptOps)
        /\ \E a \in AttemptById(attempts, last'.id) :
             ~a.is_submitted /\ AllChoice(a.quiz_id))
       => \E b \in AttemptById(attempts', last'.id) :
            /\ b.is_graded
            /\ b.total_score
                 = SumPoints(CorrectlyAnswered(answers', b.attempt_id))]_vars

(* C12: at every time a submitted attempt's total_score is the sum of the  *)
(* score_awarded of its answers, NULL counted as 0, and a staff grading    *)
(* step on an answer of a submitted attempt leaves the answer with the     *)
(* staff's score and the attempt's total_score equal to the new sum.       *)
C12_TotalScoreIsSumOfAnswerScores ==
    /\ [](\A a \in attempts :
            a.is_submitted
              => a.total_score = SumScores(AnswersOf(answers, a.attempt_id)))
    /\ [][(/\ Completes(StaffGradeOps)
           /\ "grade" \in last'.keys
           /\ \E r \in AnswerById(answers, last'.id) :
                \E a \in AttemptById(attempts, r.attempt_id) : a.is_submitted)
          => \A r \in AnswerById(answers', last'.id) :
               /\ r.score_awarded = last'.score
               /\ \A a \in AttemptById(attempts', r.attempt_id) :
                    a.total_score
                      = SumScores(AnswersOf(answers', a.attempt_id))]_vars

(* C13: an attempt only moves forward.  A submitAttempt on an attempt in   *)
(* progress leaves it submitted with submitted_at the time of the call,    *)
(* and on any other attempt changes nothing; a submitted attempt stays     *)
(* submitted and keeps its submitted_at; a graded attempt is submitted.    *)
C13_AttemptMovesForward ==
    /\ [](\A a \in attempts : a.is_graded => a.is_submitted)
    /\ [][\A a \in attempts :
            a.is_submitted
              => \A b \in AttemptById(attempts', a.attempt_id) :
                   b.is_submitted /\ b.submitted_at = a.submitted_at]_vars
    /\ [][Completes(SubmitAttemptOps)
          => \A a \in AttemptById(attempts, last'.id) :
               IF a.is_submitted
               THEN attempts' = attempts
               ELSE \E b \in AttemptById(attempts', last'.id) :
                      b.is_submitted /\ b.submitted_at = now]_vars

AnswerWriteOps == RecordAnswerOps \cup {"QuizAnswerService.update"}

(* The attempts a recordAnswer call is about: the attempt of the answer it *)
(* names, or the attempts of its student on its quiz.                      *)
TargetAttempts(c) ==
    IF c.op = "QuizAnswerService.update"
    THEN {a \in attempts :
            \E r \in AnswerById(answers, c.id) : r.attempt_id = a.attempt_id}
    ELSE {a \in attempts :
            a.quiz_id = c.quiz_id /\ a.student_id = c.student_id}

DurationOf(q) ==
    (CHOOSE r \in quizzes : r.quiz_id = q).duration_minutes

Expired(a) == now - a.started_at > DurationOf(a.quiz_id)

(* C14: recordAnswer writes an answer only for an attempt of the student   *)
(* that is in progress and whose duration has not elapsed; on an attempt   *)
(* in progress whose duration has elapsed it fails with                    *)
(* ExpiredAttemptError and writes nothing; it never changes an answer of a *)
(* submitted attempt.                                                      *)
C14_RecordAnswerGuarded ==
    /\ [][(Completes(AnswerWriteOps) /\ answers' # answers)
          => \E a \in TargetAttempts(last') :
               ~a.is_submitted /\ ~Expired(a)]_vars
    /\ [][(/\ Completes(AnswerWriteOps)
           /\ \E a \in TargetAttempts(last') :
                ~a.is_submitted /\ Expired(a))
          => (last'.outcome = "ExpiredAttemptError"
              /\ answers' = answers)]_vars
    /\ [][Completes(AnswerWriteOps)
          => \A r \in answers :
               (\E a \in AttemptById(attempts, r.attempt_id) : a.is_submitted)
                 => r \in answers']_vars

AnswerRowsIn(ans, a, x) ==
    {r \in ans : r.attempt_id = a /\ r.question_id = x}

(* C15: at every time there is at most one answer row per (attempt,        *)
(* question), and a recordAnswer on an attempt in progress within its      *)
(* duration leaves exactly one row for the attempt and the question,       *)
(* holding the choice of that call.                                        *)
C15_OneAnswerPerAttemptQuestion ==
    /\ [](\A r \in answers :
            Cardinality(AnswerRowsIn(answers, r.attempt_id, r.question_id))
              <= 1)
    /\ [][Completes(RecordAnswerOps)
          => \A a \in TargetAttempts(last') :
               (~a.is_submitted /\ ~Expired(a))
                 => LET R == AnswerRowsIn(answers', a.attempt_id,
                                          last'.question_id)
                    IN  /\ Cardinality(R) = 1
                        /\ \A r \in R :
                             r.selected_option_id = last'.option_id]_vars

QuizReadOps ==
    {"QuizService.get_by_id", "QuizService.get_by_course_offering_id",
     "QuizService.get_all", "get_quiz", "list_quizzes_for_section_group"}

(* A quiz is published when its stored row says so: table quizzes has no   *)
(* status column, and a status set through QuizService.update is not       *)
(* stored.                                                                 *)
Published(r) == "status" \in DOMAIN r /\ r.status = "published"

DeleteAssignmentOps == {"AssignmentService.delete", "delete_assignment"}

AssignmentById(rows, i) == {r \in rows : r.assignment_id = i}

SubmissionsOf(subs, a) == {r \in subs : r.assignment_id = a}

(* C17: deleteAssignment on an assignment that has a submission fails with *)
(* ConflictError and removes neither the assignment nor its submissions.   *)
C17_DeleteWithSubmissionsRefused ==
    [][(/\ Completes(DeleteAssignmentOps)
        /\ AssignmentById(assignments, last'.id) # {}
        /\ SubmissionsOf(submissions, last'.id) # {})
       => /\ last'.outcome = "ConflictError"
          /\ assignments' = assignments
          /\ submissions' = submissions]_vars

(* C18: updateAssignment on an existing assignment leaves each field of    *)
(* the patch with the patch's value (the due date as the datetime given,   *)
(* the points in the points column, the status in a status field), each    *)
(* other field as it was, and every other assignment as it was.            *)
C18_PartialUpdateExact ==
    [][(/\ Completes({"AssignmentService.update"})
        /\ AssignmentById(assignments, last'.id) # {})
       => \A r \in AssignmentById(assignments, last'.id) :
            /\ \E x \in AssignmentById(assignments', last'.id) :
                 LET K == last'.keys IN
                 /\ x.course_offering_id = r.course_offering_id
                 /\ x.title = IF "title" \in K THEN last'.title ELSE r.title
                 /\ IF "due_date" \in K
                    THEN x.due_date * HoursPerDay = last'.due
                    ELSE x.due_date = r.due_date
                 /\ x.max_points = IF "total_points" \in K THEN last'.score
                                   ELSE r.max_points
                 /\ "status" \in K
                      => ("status" \in DOMAIN x /\ x.status = last'.status)
            /\ assignments' \ AssignmentById(assignments', last'.id)
                 = assignments \ {r}]_vars

(* C19: the dependency of require_role(R) returns the user itself when the *)
(* user has a role whose name is, letter for letter, a member of R, and in *)
(* every other case, a user without a role included, raises HTTP 403 with  *)
(* the detail that the user lacks the required role(s).                    *)
C19_RequireRole ==
    (last.op = "require_role")
      => IF last.role # NoneStr /\ last.role \in last.roles
         THEN last.outcome = "ok" /\ last.ret = {last.actor}
         ELSE /\ last.outcome = "HTTP_403_FORBIDDEN"
              /\ last.feedback = "User lacks required role(s)"
              /\ last.ret = {}

(* A user with role Admin has been refused by require_role of admin.       *)
C19_Witness ==
    /\ last.op = "require_role"
    /\ last.role = "Admin"
    /\ "admin" \in last.roles
    /\ last.outcome = "HTTP_403_FORBIDDEN"

UserById(rows, i) == CHOOSE r \in rows : r.user_id = i

(* C20: a user created or updated through the user service with status s,  *)
(* active or inactive, is stored with is_active equal to (s = active); the *)
(* key status is never among the keyword arguments or attributes given to  *)
(* the User model; and the User schema returned for the user, by the call  *)
(* itself and by a later read, has status s.                               *)
C20_StatusRoundTrip ==
    /\ [][Completes({"UserService.create"})
            /\ last'.status \in {"active", "inactive"}
          => /\ last'.outcome = "ok"
             /\ "status" \notin last'.keys
             /\ \E r \in users' \ users :
                  /\ r.username = last'.title
                  /\ r.is_active = (last'.status = "active")
             /\ last'.ret_status = last'.status]_vars
    /\ [][Completes({"UserService.update"})
            /\ last'.status \in {"active", "inactive"}
            /\ (\E r \in users : r.user_id = last'.id)
          => /\ last'.outcome = "ok"
             /\ "status" \notin last'.keys
             /\ UserById(users', last'.id).is_active
                  = (last'.status = "active")
             /\ last'.ret_status = last'.status]_vars
    /\ [](last.op = "UserService.get_by_id" /\ last.outcome # "None"
            => /\ last.outcome = "ok"
               /\ last.ret_status \in {"active", "inactive"}
               /\ (last.ret_status = "active")
                    = UserById(users, last.id).is_active)

(* --------------------------- names as text ----------------------------- *)
Trimmed(t) == IF t = NoneSeq THEN <<>> ELSE Strip(t)

(* The first whitespace-separated token of the trimmed name, and the rest. *)
FirstToken(t) == SubSeq(Trimmed(t), 1, TokenLen(Trimmed(t)))

RestOfName(t) ==
    LStrip(SubSeq(Trimmed(t), TokenLen(Trimmed(t)) + 1, Len(Trimmed(t))))

(* C21: create and update of the user service, given a full_name, store    *)
(* first_name = the first whitespace-separated token of the trimmed name   *)
(* and last_name = the rest (empty when there is one token, both empty for *)
(* None, empty or blank input), and the schema they return carries the     *)
(* full name these two make; an update without full_name leaves first_name *)
(* and last_name as they were.                                             *)
C21_FullNameSplit ==
    /\ [][Completes({"UserService.create"})
          => /\ last'.outcome = "ok"
             /\ \E r \in users' \ users :
                  /\ r.username = last'.title
                  /\ r.first_name = FirstToken(last'.name)
                  /\ r.last_name = RestOfName(last'.name)
                  /\ last'.ret_name = full_name(r)]_vars
    /\ [][(/\ Completes({"UserService.update"})
           /\ last'.name # NoneSeq
           /\ \E r \in users : r.user_id = last'.id)
          => /\ last'.outcome = "ok"
             /\ LET r == UserById(users', last'.id)
                IN  /\ r.first_name = FirstToken(last'.name)
                    /\ r.last_name = RestOfName(last'.name)
                    /\ last'.ret_name = full_name(r)]_vars
    /\ [][(/\ Completes({"UserService.update"})
           /\ last'.name = NoneSeq
           /\ \E r \in users : r.user_id = last'.id)
          => LET r == UserById(users, last'.id)
                 x == UserById(users', last'.id)
             IN  x.first_name = r.first_name /\ x.last_name = r.last_name]_vars

(* ------------------------- requests with a token ----------------------- *)
(* The request was refused by the authentication.                          *)
Rejected == {"HTTP_401_UNAUTHORIZED", "HTTP_403_FORBIDDEN"}

(* The token of call c is well formed: a Bearer header, signed with the    *)
(* key of the application and not expired when the request was made.       *)
ValidToken(c) ==
    /\ c.header = "Bearer"
    /\ c.token.key = SECRET_KEY
    /\ c.token.exp >= c.at

(* The time at which a token was minted: its exp less the lifetime of its  *)
(* type.                                                                   *)
IssuedAt(t) ==
    t.exp - (IF t.type = "refresh" THEN JWT_REFRESH_TOKEN_EXPIRES
             ELSE JWT_ACCESS_TOKEN_EXPIRES)

(* C22: after a logout by user u has succeeded, a request that presents a  *)
(* token issued to u before that logout, the refresh token in particular,  *)
(* is rejected.                                                            *)
C22_LogoutInvalidatesTokens ==
    [][(/\ last.op \in {"logout", "AuthService.logout"}
        /\ last.outcome = "ok"
        /\ Completes({"get_current_user"})
        /\ ValidToken(last')
        /\ IntOfSub(last'.token.sub) = last.actor
        /\ IssuedAt(last'.token) <= last.at)
       => last'.outcome \in Rejected]_vars

(* C23: get_current_user returns a user only for a bearer token that is    *)
(* validly signed, unexpired and whose sub names a user who exists and is  *)
(* active at the time of the request; it raises 401 for a missing or       *)
(* invalid token or sub and 403 for an unknown or inactive user, so every  *)
(* request for a deactivated or deleted user is rejected.                  *)
C23_CurrentUserChecked ==
    (last.op = "get_current_user")
      => LET u == IntOfSub(last.token.sub)
             named == ValidToken(last) /\ u # NoneInt
             active == \E r \in users : r.user_id = u /\ r.is_active
         IN  /\ (last.outcome = "ok") => (named /\ active)
             /\ ~named => last.outcome = "HTTP_401_UNAUTHORIZED"
             /\ (named /\ ~active) => last.outcome = "HTTP_403_FORBIDDEN"

(* C28: a token whose type claim is refresh is not accepted as a bearer    *)
(* access credential: get_current_user rejects it, and returns a user only *)
(* for a token minted as an access token.                                  *)
C28_RefreshTokenNotACredential ==
    (last.op = "get_current_user" /\ last.token.type = "refresh")
      => last.outcome \in Rejected

(* ------------------------- login and registration ---------------------- *)
(* The call that completes in this step was not resumed from a commit: it  *)
(* ran from its first statement to its return or raise in one step.        *)
InOneStep == cur[last'.w].op = "none"

Named(rows, c) == {r \in rows : r.username = c.title}

WrongPassword(rows, c) ==
    \E r \in Named(rows, c) : ~verify_password(c.password, r.password_hash)

(* C26: login returns a token pair only for an existing user whose         *)
(* password verifies; last_login is written only by a login that returns   *)
(* the token pair; a login that fails on an unknown user, a wrong password *)
(* or an inactive user changes no user row and returns no token.           *)
C26_LoginFrame ==
    /\ [][(Completes({"AuthService.login"})
           /\ last'.access_token # NoToken)
          => /\ last'.outcome = "ok"
             /\ last'.refresh_token # NoToken
             /\ \E r \in Named(users', last') :
                  verify_password(last'.password, r.password_hash)]_vars
    /\ [][(Completes({"AuthService.login"}) /\ users' # users)
          => /\ last'.outcome = "ok"
             /\ last'.access_token # NoToken
             /\ \A r \in users :
                  \E x \in users' :
                     /\ x = [r EXCEPT !.last_login = x.last_login]
                     /\ (x # r => x.username = last'.title)]_vars
    /\ [][(/\ Completes({"AuthService.login"})
           /\ InOneStep
           /\ \/ Named(users, last') = {}
              \/ WrongPassword(users, last')
              \/ \E r \in Named(users, last') : ~r.is_active)
          => /\ users' = users
             /\ last'.access_token = NoToken
             /\ last'.refresh_token = NoToken
             /\ last'.outcome \in Rejected]_vars

(* C27: a login that names no user and a login that names a user with a    *)
(* wrong password get the same response, status 401 with the same detail   *)
(* and headers; the 403 of an inactive account is given only to a caller   *)
(* who supplied the correct password of that account.                      *)
C27_LoginFailuresAlike ==
    /\ [][(/\ Completes({"AuthService.login"})
           /\ InOneStep
           /\ (Named(users, last') = {} \/ WrongPassword(users, last')))
          => last'.resp =
               [status_code |-> 401,
                detail |-> "Incorrect username or password",
                headers |-> {"WWW-Authenticate: Bearer"}]]_vars
    /\ [][(Completes({"AuthService.login"})
           /\ last'.resp.status_code = 403)
          => \E r \in Named(users, last') :
               /\ ~r.is_active
               /\ verify_password(last'.password, r.password_hash)]_vars

(* An inactive user has logged in with the wrong password and got 401.     *)
C27_Witness ==
    /\ last.op = "AuthService.login"
    /\ last.resp.status_code = 401
    /\ \E r \in Named(users, last) :
         ~r.is_active /\ ~verify_password(last.password, r.password_hash)

(* The username or the email of call c is already stored.                  *)
Taken(rows, c) ==
    \E r \in rows : r.username = c.title \/ r.email = c.file_path

(* C29: whatever the interleaving of register calls, no two users share a  *)
(* username or an email; a register call whose username or email is taken  *)
(* fails and adds no user, with HTTP 400 when its own check sees the row.  *)
C29_RegisterKeepsUnique ==
    /\ [](\A r1, r2 \in users :
            (r1.username = r2.username \/ r1.email = r2.email) => r1 = r2)
    /\ [][(Completes({"AuthService.register"}) /\ Taken(users, last'))
          => (users' = users /\ last'.outcome # "ok")]_vars
    /\ [][(/\ Completes({"AuthService.register"})
           /\ InOneStep
           /\ Taken(users, last'))
          => last'.outcome = "HTTP_400_BAD_REQUEST"]_vars

(* ------------------------------- uploads ------------------------------- *)
HttpErrors ==
    {"HTTP_400_BAD_REQUEST", "HTTP_413_REQUEST_ENTITY_TOO_LARGE"}

(* The size of the file can be determined: the stream can be measured by   *)
(* seeking to its end, or it exposes its buffer.                           *)
SizeKnown(f) ==
    (f.stream = "fileno" /\ f.seekable) \/ f.stream = "getbuffer"

(* C24: validate_upload_file raises an HTTP error for every file whose     *)
(* name is empty or longer than 128 characters, whose extension is not in  *)
(* the allowed list, or whose size can be determined and exceeds max_size, *)
(* and returns normally only for a file that passes all three checks.      *)
C24_UploadValidated ==
    (last.op = "validate_upload_file")
      => LET f == last.file
             bad == \/ f.len = 0
                    \/ f.len > 128
                    \/ LowerExt(f.ext) \notin ALLOWED_EXTENSIONS
                    \/ (SizeKnown(f) /\ f.size > last.score)
         IN  IF bad THEN last.outcome \in HttpErrors
             ELSE last.outcome = "ok"


(* ------------------ update and delete of the CRUD services ------------- *)
CrudUpdateOps ==
    {"AssignmentSubmissionService.update", "QuizAttemptService.update",
     "GradeService.update", "AssignmentService.update"}

CrudDeleteOps ==
    {"AssignmentSubmissionService.delete", "QuizAttemptService.delete",
     "GradeService.delete", "AssignmentService.delete"}

(* The table an operation works on, and the name of its primary key.       *)
CrudRows(op) ==
    CASE op \in {"AssignmentSubmissionService.update",
                 "AssignmentSubmissionService.delete"} -> submissions
      [] op \in {"QuizAttemptService.update",
                 "QuizAttemptService.delete"} -> attempts
      [] op \in {"GradeService.update", "GradeService.delete"} -> grades
      [] op \in {"AssignmentService.update",
                 "AssignmentService.delete"} -> assignments

CrudKey(op) ==
    CASE op \in {"AssignmentSubmissionService.update",
                 "AssignmentSubmissionService.delete"} -> "submission_id"
      [] op \in {"QuizAttemptService.update",
                 "QuizAttemptService.delete"} -> "attempt_id"
      [] op \in {"GradeService.update", "GradeService.delete"} -> "grade_id"
      [] op \in {"AssignmentService.update",
                 "AssignmentService.delete"} -> "assignment_id"

CrudIds(op) == {r[CrudKey(op)] : r \in CrudRows(op)}

(* C25: for the submission, attempt, grade and assignment services, an     *)
(* update on an id that is not in the store returns None and a delete on   *)
(* such an id returns False, both leaving every table unchanged; a delete  *)
(* on an id that is in the store returns True and removes from the         *)
(* service's table exactly the row with that id.                           *)
C25_NotFoundAndDelete ==
    /\ [][\A op \in CrudUpdateOps :
            (Completes({op}) /\ InOneStep /\ last'.id \notin CrudIds(op))
            => (last'.outcome = "None" /\ UNCHANGED tables)]_vars
    /\ [][\A op \in CrudDeleteOps :
            (Completes({op}) /\ InOneStep /\ last'.id \notin CrudIds(op))
            => (last'.outcome = "False" /\ UNCHANGED tables)]_vars
    /\ [][\A op \in CrudDeleteOps :
            (Completes({op}) /\ last'.id \in CrudIds(op))
            => /\ last'.outcome = "True"
               /\ CrudRows(op)' =
                    {r \in CrudRows(op) : r[CrudKey(op)] # last'.id}]_vars


====
